---- MODULE Spec2Model ----
(***************************************************************************)
(* Driver float and expense ledger of the fleet-operations backend.        *)
(*                                                                         *)
(* The handlers of handlers/method (issueFloat, closeFloat, createExpense, *)
(* updateExpenseStatus, deleteExpense) are asynchronous: every `await` on  *)
(* the document store is a point where another request may run.  Each      *)
(* handler is therefore modelled as a small process whose steps are the    *)
(* store round trips of its code, in the code's order.                     *)
(*                                                                         *)
(* The document store (helpers/api: getDocument, updateDocument,           *)
(* setDocument, runDbTransaction, ...) is an external collaborator.  Point *)
(* reads and writes are atomic per document; a transaction reads, buffers  *)
(* its writes and commits them atomically provided no document it read was *)
(* written in between, otherwise it is run again (optimistic retry).       *)
(*                                                                         *)
(* Amounts are JavaScript numbers.  The model counts an amount in steps of *)
(* 1/Scale of a minor unit (cent): the integer n stands for n/Scale cents  *)
(* and is a whole number of cents iff n % Scale = 0.                       *)
(***************************************************************************)
EXTENDS Integers, Sequences, FiniteSets, TLC

(***************************************************************************)
(* Bounds of the model.                                                    *)
(***************************************************************************)
\* number of float documents ever created
MaxFloats == 2
\* number of expense documents ever created
MaxExpenses == 2
\* attempts the store makes to commit one transaction before giving up
MaxAttempts == 2
\* largest amount, in cents, of the float the submission scenario starts from
MaxIssued == 2
\* steps of the amount scale per cent
Scale == 2

\* request slots: at most this many handlers are in flight at once
Procs == {"p1", "p2"}

Orgs == {"o1", "o2"}

\* authenticated identity contexts (ensureUser): uid, role, organisationId
Users ==
    { [uid |-> "d1", role |-> "driver",       organisationId |-> "o1"],
      [uid |-> "d2", role |-> "driver",       organisationId |-> "o1"],
      [uid |-> "d1", role |-> "driver",       organisationId |-> "o2"],
      [uid |-> "m1", role |-> "ops",          organisationId |-> "o1"],
      [uid |-> "t1", role |-> "tour_manager", organisationId |-> "o1"],
      [uid |-> "w1", role |-> "owner",        organisationId |-> "o1"],
      [uid |-> "w2", role |-> "owner",        organisationId |-> "o2"] }

\* req.body.driverId of issueFloat; "" is an absent (falsy) driverId
DriverIdInputs == {"", "d1", "d2"}
\* typeof req.body.amountCents of issueFloat
AmountTypeInputs == {"number", "string"}
\* req.body.amountCents of issueFloat when it is a number: minus one cent,
\* zero, a fraction of a cent, one cent
FloatAmountInputs == {-Scale, 0, 1, Scale}
\* req.body.amountCents of createExpense (the handler does not validate it):
\* zero, one cent, two cents
ExpenseAmountInputs == {0, Scale, 2 * Scale}
\* req.body.category of createExpense; WIFI is the reimbursement category
Categories == {"WIFI", "FUEL"}
\* req.body.action of updateExpenseStatus
ActionInputs == {"approve", "reject", "other"}
\* req.body.floatId of createExpense; 0 is an absent (falsy) floatId,
\* MaxFloats + 1 an id of no document
FloatIdInputs == 0 .. (MaxFloats + 1)
\* req.params.id of the expense handlers; MaxExpenses + 1 names no document
ExpenseIdInputs == 1 .. (MaxExpenses + 1)

(***************************************************************************)
(* State.                                                                  *)
(*   floats    the `floats` collection: floats[id] is the document id      *)
(*   expenses  the `expenses` collection; a deleted document leaves        *)
(*             NoExpense at its id (ids are never reused)                  *)
(*   procs     the handler running in each request slot: its position,     *)
(*             its local variables and, when idle, its last response       *)
(***************************************************************************)
\*   requested the body each slot's latest createExpense or
\*             submitInspection call was invoked with; a history variable
\*             kept by the scenarios that compare a call with its outcome
\*   vehicles  the `vehicles` collection: the fields of a vehicle that the
\*             handlers of the vehicle status machine read or write
\*   issues    the `issues` collection
\*   tours     the `tours` collection; a deleted document leaves NoTour at
\*             its id
\*   projection  the arguments and the result of a call of the maintenance
\*             projection (helpers/serviceIndicators)
VARIABLES floats, expenses, procs, requested, vehicles, issues, tours, projection

vars == <<floats, expenses, procs, requested, vehicles, issues, tours, projection>>

\* The documents of the float and expense ledger.
ledger == <<floats, expenses, requested>>

\* The documents of the vehicle status machine and the projection call.
fleet == <<vehicles, issues, tours, projection>>

NoExpense ==
    [exists |-> FALSE, organisationId |-> "-", driverId |-> "-", floatId |-> 0,
     category |-> "-", amount |-> 0, status |-> "-",
     approvedBy |-> "none", approvedAt |-> "none"]

Idle ==
    [pc |-> "idle", op |-> "none", organisationId |-> "-", uid |-> "-",
     floatId |-> 0, expenseId |-> 0, driverId |-> "-",
     category |-> "-", amount |-> 0, action |-> "-", toClose |-> {},
     conflict |-> FALSE, attempts |-> 0, status |-> 0, message |-> "-",
     vehicleId |-> 0, issueId |-> 0, tourId |-> 0, severity |-> "-",
     description |-> <<>>, issueStatus |-> "-", tourStatus |-> "-"]

NoTour ==
    [exists |-> FALSE, organisationId |-> "-", driverId |-> "",
     vehicleId |-> 0, status |-> "-"]

\* No projection call has been set up.
NoProjection == [called |-> FALSE]

\* The state of the vehicle status machine in the ledger scenarios.
NoFleet ==
    /\ vehicles = <<>>
    /\ issues = <<>>
    /\ tours = <<>>
    /\ projection = NoProjection

(***************************************************************************)
(* Document store primitives.                                              *)
(***************************************************************************)
FloatExists(id) == id \in 1 .. Len(floats)

ExpenseExists(id) == id \in 1 .. Len(expenses) /\ expenses[id].exists

\* Positions of the handlers whose transaction has read its float document
\* and has not committed yet.
InTxn(pr) == pr.pc \in {"ce_commit", "de_commit"}

\* A write to float document `id` by slot `w`: every other transaction that
\* has read this document will fail its commit and be run again.
Touch(ps, w, id) ==
    [q \in Procs |->
        IF q # w /\ InTxn(ps[q]) /\ ps[q].floatId = id
        THEN [ps[q] EXCEPT !.conflict = TRUE]
        ELSE ps[q]]

\* res.status(status).json({message}): the handler ends with this response.
Respond(p, op, status, message) ==
    [procs EXCEPT ![p] = [Idle EXCEPT !.op = op, !.status = status,
                                      !.message = message]]

RequireRole(role, allowed) == role \in allowed

\* The values to try for an input of a request: all of `values` if the
\* handler reads the input on the path taken, and one of them (it makes no
\* difference which) if the handler answers before reading it.
IfRead(read, values) ==
    IF read THEN values ELSE {CHOOSE v \in values : TRUE}

\* Handlers of kind `op` that are in flight.
InFlight(op) == {q \in Procs : procs[q].pc # "idle" /\ procs[q].op = op}

(***************************************************************************)
(* issueFloat                                                              *)
(***************************************************************************)
\* !driverId || typeof amountCents !== 'number' || amountCents <= 0
InvalidFloatPayload(driverId, amountType, amountCents) ==
    driverId = "" \/ amountType # "number" \/ amountCents <= 0

\* The query for the driver's active floats in the organisation.
ActiveFloats(organisationId, driverId) ==
    {id \in 1 .. Len(floats) :
        /\ floats[id].organisationId = organisationId
        /\ floats[id].driverId = driverId
        /\ floats[id].active}

\* Variant: only the ops role is refused.
ConflictingActiveFloatOpsOnly(activeFloats, role) ==
    activeFloats # {} /\ role = "ops"

\* The refusal to issue: the driver has an active float and the caller is
\* not an owner.
ConflictingActiveFloat(activeFloats, role) ==
    activeFloats # {} /\ role # "owner"

\* Variant: the float is stored with nothing left to spend.
NewFloatSpent(organisationId, driverId, amountCents) ==
    [organisationId |-> organisationId, driverId |-> driverId,
     originalAmount |-> amountCents, remainingAmount |-> 0,
     active |-> TRUE, closedAt |-> "none"]

\* The document issueFloat stores.
NewFloat(organisationId, driverId, amountCents) ==
    [organisationId |-> organisationId, driverId |-> driverId,
     originalAmount |-> amountCents, remainingAmount |-> amountCents,
     active |-> TRUE, closedAt |-> "none"]

\* A call of issueFloat with the given identity and body: the role check,
\* the payload validation and the query for the driver's active floats.
IssueFloatCall(p, user, driverId, amountType, amountCents) ==
    /\ procs[p].pc = "idle"
    /\ Len(floats) + Cardinality(InFlight("issueFloat")) < MaxFloats
    /\ procs' =
          IF ~RequireRole(user.role, {"ops", "owner", "tour_manager"})
          THEN Respond(p, "issueFloat", 403, "Forbidden: insufficient role")
          ELSE IF InvalidFloatPayload(driverId, amountType, amountCents)
          THEN Respond(p, "issueFloat", 400, "Invalid float payload")
          ELSE LET activeFloats ==
                       ActiveFloats(user.organisationId, driverId)
               IN  IF ConflictingActiveFloat(activeFloats, user.role)
                   THEN Respond(p, "issueFloat", 400,
                                "Driver already has an active float")
                   ELSE [procs EXCEPT ![p] =
                            [Idle EXCEPT
                                !.pc = IF activeFloats # {}
                                       THEN "if_close" ELSE "if_set",
                                !.op = "issueFloat",
                                !.organisationId = user.organisationId,
                                !.driverId = driverId,
                                !.amount = amountCents,
                                !.toClose = activeFloats]]
    /\ UNCHANGED <<floats, expenses, requested, fleet>>

IssueFloatStart(p) ==
    \E user \in Users :
    \E driverId \in IfRead(RequireRole(user.role,
                              {"ops", "owner", "tour_manager"}),
                            DriverIdInputs),
       amountType \in IfRead(RequireRole(user.role,
                              {"ops", "owner", "tour_manager"}),
                              AmountTypeInputs) :
    \E amountCents \in IfRead(RequireRole(user.role,
                               {"ops", "owner", "tour_manager"})
                               /\ driverId # "" /\ amountType = "number",
                               FloatAmountInputs) :
        IssueFloatCall(p, user, driverId, amountType, amountCents)

\* Variant: a float closed for a new one is also emptied.
IssueFloatCloseSettles(p) ==
    /\ procs[p].pc = "if_close"
    /\ \E id \in procs[p].toClose :
        /\ floats' = [floats EXCEPT ![id].active = FALSE,
                                    ![id].closedAt = "now",
                                    ![id].remainingAmount = 0]
        /\ procs' =
              [Touch(procs, p, id) EXCEPT
                  ![p].toClose = procs[p].toClose \ {id},
                  ![p].pc = IF procs[p].toClose = {id}
                            THEN "if_set" ELSE "if_close"]
    /\ UNCHANGED <<expenses, requested, fleet>>

\* One turn of the loop that closes the floats the query returned.
IssueFloatClose(p) ==
    /\ procs[p].pc = "if_close"
    /\ \E id \in procs[p].toClose :
        /\ floats' = [floats EXCEPT ![id].active = FALSE,
                                    ![id].closedAt = "now"]
        /\ procs' =
              [Touch(procs, p, id) EXCEPT
                  ![p].toClose = procs[p].toClose \ {id},
                  ![p].pc = IF procs[p].toClose = {id}
                            THEN "if_set" ELSE "if_close"]
    /\ UNCHANGED <<expenses, requested, fleet>>

\* setDocument of the new float, under a fresh id, and the 201 response.
IssueFloatSet(p) ==
    /\ procs[p].pc = "if_set"
    /\ floats' = Append(floats, NewFloat(procs[p].organisationId,
                                         procs[p].driverId, procs[p].amount))
    /\ procs' = Respond(p, "issueFloat", 201, "Float issued")
    /\ UNCHANGED <<expenses, requested, fleet>>

(***************************************************************************)
(* closeFloat                                                              *)
(***************************************************************************)
\* A call of closeFloat with the given identity and float id: the role
\* check and the read of the float document.
CloseFloatCall(p, user, floatId) ==
    /\ procs[p].pc = "idle"
    /\ procs' =
          IF ~RequireRole(user.role, {"ops", "owner", "tour_manager"})
          THEN Respond(p, "closeFloat", 403, "Forbidden: insufficient role")
          ELSE IF ~FloatExists(floatId)
          THEN Respond(p, "closeFloat", 404, "Float not found")
          ELSE IF floats[floatId].organisationId # user.organisationId
          THEN Respond(p, "closeFloat", 403,
                       "Float does not belong to organisation")
          ELSE [procs EXCEPT ![p] =
                   [Idle EXCEPT !.pc = "cf_write", !.op = "closeFloat",
                                !.organisationId = user.organisationId,
                                !.floatId = floatId]]
    /\ UNCHANGED <<floats, expenses, requested, fleet>>

CloseFloatStart(p) ==
    \E user \in Users :
    \E floatId \in IfRead(RequireRole(user.role,
                             {"ops", "owner", "tour_manager"}),
                          FloatIdInputs \ {0}) :
        CloseFloatCall(p, user, floatId)

\* Variant: closeFloat on a float that is already closed opens it again.
CloseFloatWriteToggles(p) ==
    /\ procs[p].pc = "cf_write"
    /\ floats' = [floats EXCEPT ![procs[p].floatId].active = ~@,
                                ![procs[p].floatId].closedAt = "now"]
    /\ procs' = [q \in Procs |->
                    IF q = p
                    THEN [Idle EXCEPT !.op = "closeFloat", !.status = 200,
                                      !.message = "Float closed"]
                    ELSE Touch(procs, p, procs[p].floatId)[q]]
    /\ UNCHANGED <<expenses, requested, fleet>>

\* Variant: closing a float also settles it (its remaining amount is
\* zeroed).
CloseFloatWriteSettles(p) ==
    /\ procs[p].pc = "cf_write"
    /\ floats' = [floats EXCEPT ![procs[p].floatId].active = FALSE,
                                ![procs[p].floatId].closedAt = "now",
                                ![procs[p].floatId].remainingAmount = 0]
    /\ procs' = [q \in Procs |->
                    IF q = p
                    THEN [Idle EXCEPT !.op = "closeFloat", !.status = 200,
                                      !.message = "Float closed"]
                    ELSE Touch(procs, p, procs[p].floatId)[q]]
    /\ UNCHANGED <<expenses, requested, fleet>>

\* updateDocument('floats', floatId, {active: false, ...}) and the response.
CloseFloatWrite(p) ==
    /\ procs[p].pc = "cf_write"
    /\ floats' = [floats EXCEPT ![procs[p].floatId].active = FALSE,
                                ![procs[p].floatId].closedAt = "now"]
    /\ procs' = [q \in Procs |->
                    IF q = p
                    THEN [Idle EXCEPT !.op = "closeFloat", !.status = 200,
                                      !.message = "Float closed"]
                    ELSE Touch(procs, p, procs[p].floatId)[q]]
    /\ UNCHANGED <<expenses, requested, fleet>>

(***************************************************************************)
(* createExpense                                                           *)
(***************************************************************************)
\* Variant: the driver is not compared.
FloatInvalidOrganisationOnly(floatData, organisationId, uid) ==
    floatData.organisationId # organisationId

\* Variant: a closed float is refused as well.
FloatInvalidOrClosed(floatData, organisationId, uid) ==
    \/ floatData.organisationId # organisationId
    \/ floatData.driverId # uid
    \/ ~floatData.active

\* floatData.organisationId !== user.organisationId ||
\* floatData.driverId !== user.uid
FloatInvalid(floatData, organisationId, uid) ==
    floatData.organisationId # organisationId \/ floatData.driverId # uid

\* floatData.remainingAmount < amountCents
InsufficientFunds(floatData, amountCents) ==
    floatData.remainingAmount < amountCents

\* Variant: every category is debited.
AdjustmentDebitOnly(category, amountCents) == -amountCents

\* category === 'WIFI' ? amountCents : -amountCents
Adjustment(category, amountCents) ==
    IF category = "WIFI" THEN amountCents ELSE -amountCents

\* The document transaction.set stores for the expense.
NewExpense(organisationId, uid, floatId, category, amountCents) ==
    [exists |-> TRUE, organisationId |-> organisationId, driverId |-> uid,
     floatId |-> floatId, category |-> category, amount |-> amountCents,
     status |-> "pending", approvedBy |-> "none", approvedAt |-> "none"]

\* One run of the transaction function, as attempt number `attempt`: the
\* fresh read of the float and the three checks.  A throw ends the
\* transaction and is answered by the catch block; otherwise the two writes
\* are buffered and the transaction waits for its commit.
CreateExpenseRun(p, organisationId, uid, floatId, category, amountCents, attempt) ==
    IF ~FloatExists(floatId)
    THEN Respond(p, "createExpense", 404, "Float not found")
    ELSE IF FloatInvalid(floats[floatId], organisationId, uid)
    THEN Respond(p, "createExpense", 403, "Invalid float or unauthorized")
    ELSE IF InsufficientFunds(floats[floatId], amountCents)
    THEN Respond(p, "createExpense", 400, "Insufficient float balance")
    ELSE [procs EXCEPT ![p] =
             [Idle EXCEPT !.pc = "ce_commit", !.op = "createExpense",
                          !.organisationId = organisationId, !.uid = uid,
                          !.floatId = floatId, !.category = category,
                          !.amount = amountCents, !.attempts = attempt]]

\* Variant: the expense document is stored before the transaction, whatever
\* its checks then find.
CreateExpenseCallStoresFirst(p, user, category, amountCents, floatId) ==
    /\ procs[p].pc = "idle"
    /\ Len(expenses) + Cardinality(InFlight("createExpense")) < MaxExpenses
    /\ procs' =
          IF ~RequireRole(user.role, {"driver"})
          THEN Respond(p, "createExpense", 403, "Forbidden: insufficient role")
          ELSE IF floatId = 0
          THEN Respond(p, "createExpense", 400, "Float ID required")
          ELSE CreateExpenseRun(p, user.organisationId, user.uid, floatId,
                                category, amountCents, 1)
    /\ expenses' =
          IF RequireRole(user.role, {"driver"}) /\ floatId # 0
          THEN Append(expenses,
                      NewExpense(user.organisationId, user.uid, floatId,
                                 category, amountCents))
          ELSE expenses
    /\ UNCHANGED <<floats, fleet>>

\* A call of createExpense with the given identity and body: the role check,
\* the floatId check and the first run of the transaction function.  (The
\* receipt upload and the tour and vehicle labels read no ledger document
\* and write none; nothing the handler does before the transaction reads
\* the store's floats or expenses.)
CreateExpenseCall(p, user, category, amountCents, floatId) ==
    /\ procs[p].pc = "idle"
    /\ Len(expenses) + Cardinality(InFlight("createExpense")) < MaxExpenses
    /\ procs' =
          IF ~RequireRole(user.role, {"driver"})
          THEN Respond(p, "createExpense", 403, "Forbidden: insufficient role")
          ELSE IF floatId = 0
          THEN Respond(p, "createExpense", 400, "Float ID required")
          ELSE CreateExpenseRun(p, user.organisationId, user.uid, floatId,
                                category, amountCents, 1)
    /\ UNCHANGED <<floats, expenses, fleet>>

\* The calls whose category and amount the handler reads: those that reach
\* the funds check.
ReachesFundsCheck(user, floatId) ==
    /\ RequireRole(user.role, {"driver"})
    /\ FloatExists(floatId)
    /\ ~FloatInvalid(floats[floatId], user.organisationId, user.uid)

CreateExpenseStart(p) ==
    \E user \in Users :
    \E floatId \in IfRead(RequireRole(user.role, {"driver"}),
                          FloatIdInputs) :
        \E category \in IfRead(ReachesFundsCheck(user, floatId), Categories),
           amountCents \in IfRead(ReachesFundsCheck(user, floatId),
                                  ExpenseAmountInputs) :
            /\ CreateExpenseCall(p, user, category, amountCents, floatId)
            /\ UNCHANGED requested

\* Variant: the writes are applied whether or not the float was written
\* since it was read (no transaction guards them).
CreateExpenseCommitUnguarded(p) ==
    /\ procs[p].pc = "ce_commit"
    /\ LET pr == procs[p]
           floatData == floats[pr.floatId]
       IN  /\ expenses' = Append(expenses,
                 NewExpense(pr.organisationId, pr.uid, pr.floatId,
                            pr.category, pr.amount))
           /\ floats' = [floats EXCEPT
                 ![pr.floatId].remainingAmount =
                     floatData.remainingAmount
                     + Adjustment(pr.category, pr.amount)]
           /\ procs' = [q \in Procs |->
                 IF q = p
                 THEN [Idle EXCEPT !.op = "createExpense", !.status = 201,
                                   !.message = "Expense created"]
                 ELSE Touch(procs, p, pr.floatId)[q]]
    /\ UNCHANGED <<requested, fleet>>

\* The commit of a transaction whose float was not written since it was
\* read (so floatData is the current document): the expense document and
\* the float's new remainingAmount are written together, and the 201
\* response follows.
CreateExpenseCommit(p) ==
    /\ procs[p].pc = "ce_commit"
    /\ ~procs[p].conflict
    /\ LET pr == procs[p]
           floatData == floats[pr.floatId]
       IN  /\ expenses' = Append(expenses,
                 NewExpense(pr.organisationId, pr.uid, pr.floatId,
                            pr.category, pr.amount))
           /\ floats' = [floats EXCEPT
                 ![pr.floatId].remainingAmount =
                     floatData.remainingAmount
                     + Adjustment(pr.category, pr.amount)]
           /\ procs' = [q \in Procs |->
                 IF q = p
                 THEN [Idle EXCEPT !.op = "createExpense", !.status = 201,
                                   !.message = "Expense created"]
                 ELSE Touch(procs, p, pr.floatId)[q]]
    /\ UNCHANGED <<requested, fleet>>

\* The float was written since the transaction read it: the commit fails
\* and the store runs the transaction function again.
CreateExpenseRetry(p) ==
    /\ procs[p].pc = "ce_commit"
    /\ procs[p].conflict
    /\ procs[p].attempts < MaxAttempts
    /\ LET pr == procs[p]
       IN  procs' = CreateExpenseRun(p, pr.organisationId, pr.uid, pr.floatId,
                                     pr.category, pr.amount, pr.attempts + 1)
    /\ UNCHANGED <<floats, expenses, requested, fleet>>

\* Variant: the store never gives up; a transaction that has used its
\* attempts is run once more.
CreateExpenseAbortRunsAgain(p) ==
    /\ procs[p].pc = "ce_commit"
    /\ procs[p].conflict
    /\ procs[p].attempts >= MaxAttempts
    /\ LET pr == procs[p]
       IN  procs' = CreateExpenseRun(p, pr.organisationId, pr.uid, pr.floatId,
                                     pr.category, pr.amount, pr.attempts)
    /\ UNCHANGED <<floats, expenses, requested, fleet>>

\* The store gives up: runDbTransaction rejects and the catch block answers
\* with the generic 500.
CreateExpenseAbort(p) ==
    /\ procs[p].pc = "ce_commit"
    /\ procs[p].conflict
    /\ procs[p].attempts >= MaxAttempts
    /\ procs' = Respond(p, "createExpense", 500, "Failed to create expense")
    /\ UNCHANGED <<floats, expenses, requested, fleet>>

(***************************************************************************)
(* updateExpenseStatus                                                     *)
(***************************************************************************)
\* action === 'approve' ? 'approved' : 'rejected'
NewStatus(action) == IF action = "approve" THEN "approved" ELSE "rejected"

\* Variant: only an approved expense counts as processed.
AlreadyProcessedApprovedOnly(expense) == expense.status = "approved"

\* expense.status !== 'pending'
AlreadyProcessed(expense) == expense.status # "pending"

\* A call of updateExpenseStatus with the given identity, action and expense
\* id: the role and action checks, the read of the expense and the checks
\* on it.
UpdateExpenseStatusCall(p, user, action, expenseId) ==
    /\ procs[p].pc = "idle"
    /\ procs' =
          IF ~RequireRole(user.role, {"ops", "owner"})
          THEN Respond(p, "updateExpenseStatus", 403,
                       "Forbidden: insufficient role")
          ELSE IF action \notin {"approve", "reject"}
          THEN Respond(p, "updateExpenseStatus", 400, "Invalid action")
          ELSE IF ~ExpenseExists(expenseId)
          THEN Respond(p, "updateExpenseStatus", 404, "Expense not found")
          ELSE IF expenses[expenseId].organisationId # user.organisationId
          THEN Respond(p, "updateExpenseStatus", 403,
                       "Expense does not belong to organisation")
          ELSE IF AlreadyProcessed(expenses[expenseId])
          THEN Respond(p, "updateExpenseStatus", 400,
                       "Expense already processed")
          ELSE [procs EXCEPT ![p] =
                   [Idle EXCEPT !.pc = "us_write",
                                !.op = "updateExpenseStatus",
                                !.organisationId = user.organisationId,
                                !.uid = user.uid,
                                !.expenseId = expenseId,
                                !.action = action]]
    /\ UNCHANGED <<floats, expenses, requested, fleet>>

UpdateExpenseStatusStart(p) ==
    \E user \in Users :
    \E action \in IfRead(RequireRole(user.role, {"ops", "owner"}),
                          ActionInputs) :
    \E expenseId \in IfRead(RequireRole(user.role, {"ops", "owner"})
                             /\ action \in {"approve", "reject"},
                             ExpenseIdInputs) :
        UpdateExpenseStatusCall(p, user, action, expenseId)

\* Variant: a rejection gives the amount back to the float.
UpdateExpenseStatusWriteRefunds(p) ==
    /\ procs[p].pc = "us_write"
    /\ LET pr == procs[p]
       IN  IF ExpenseExists(pr.expenseId)
           THEN /\ expenses' = [expenses EXCEPT
                       ![pr.expenseId].status = NewStatus(pr.action),
                       ![pr.expenseId].approvedBy = pr.uid,
                       ![pr.expenseId].approvedAt = "now"]
                /\ floats' =
                      IF pr.action = "reject"
                      THEN [floats EXCEPT
                              ![expenses[pr.expenseId].floatId].remainingAmount
                                  = @ + expenses[pr.expenseId].amount]
                      ELSE floats
                /\ procs' = Respond(p, "updateExpenseStatus", 200,
                                    "Expense status updated")
           ELSE /\ expenses' = expenses
                /\ floats' = floats
                /\ procs' = Respond(p, "updateExpenseStatus", 0,
                                    "no response")
    /\ UNCHANGED <<requested, fleet>>

\* updateDocument('expenses', expenseId, {status, approvedBy, approvedAt,
\* ...}) and the response.  An update of a document that no longer exists is
\* rejected by the store; the handler has no catch block, so no response is
\* sent.
UpdateExpenseStatusWrite(p) ==
    /\ procs[p].pc = "us_write"
    /\ LET pr == procs[p]
       IN  IF ExpenseExists(pr.expenseId)
           THEN /\ expenses' = [expenses EXCEPT
                       ![pr.expenseId].status = NewStatus(pr.action),
                       ![pr.expenseId].approvedBy = pr.uid,
                       ![pr.expenseId].approvedAt = "now"]
                /\ procs' = Respond(p, "updateExpenseStatus", 200,
                                    "Expense status updated")
           ELSE /\ expenses' = expenses
                /\ procs' = Respond(p, "updateExpenseStatus", 0,
                                    "no response")
    /\ UNCHANGED <<floats, requested, fleet>>

(***************************************************************************)
(* deleteExpense                                                           *)
(***************************************************************************)
\* Variant: every reversal is a credit.
ReverseAdjustmentCreditOnly(category, amount) == amount

\* expense.category === 'WIFI' ? -(expense.amount || 0) : (expense.amount || 0)
ReverseAdjustment(category, amount) ==
    IF category = "WIFI" THEN -amount ELSE amount

\* Variant: the reversal is applied to any float that exists.
ReversalAppliesToAnyFloat(floatId, organisationId) ==
    floatId # 0 /\ FloatExists(floatId)

\* floatRef && floatSnap.exists() &&
\* floatData.organisationId === user.organisationId
ReversalApplies(floatId, organisationId) ==
    /\ floatId # 0
    /\ FloatExists(floatId)
    /\ floats[floatId].organisationId = organisationId

\* A call of deleteExpense with the given identity and expense id: the role
\* check and the read of the expense, outside the transaction.  The handler
\* keeps this copy of the expense (its floatId, category and amount).
DeleteExpenseCall(p, user, expenseId) ==
    /\ procs[p].pc = "idle"
    /\ procs' =
          IF ~RequireRole(user.role, {"owner"})
          THEN Respond(p, "deleteExpense", 403,
                       "Forbidden: insufficient role")
          ELSE IF ~ExpenseExists(expenseId)
          THEN Respond(p, "deleteExpense", 404, "Expense not found")
          ELSE IF expenses[expenseId].organisationId # user.organisationId
          THEN Respond(p, "deleteExpense", 403,
                       "Expense does not belong to organisation")
          ELSE [procs EXCEPT ![p] =
                   [Idle EXCEPT !.pc = "de_txn", !.op = "deleteExpense",
                                !.organisationId = user.organisationId,
                                !.expenseId = expenseId,
                                !.floatId = expenses[expenseId].floatId,
                                !.category = expenses[expenseId].category,
                                !.amount = expenses[expenseId].amount]]
    /\ UNCHANGED <<floats, expenses, requested, fleet>>

DeleteExpenseStart(p) ==
    \E user \in Users :
    \E expenseId \in IfRead(RequireRole(user.role, {"owner"}),
                            ExpenseIdInputs) :
        DeleteExpenseCall(p, user, expenseId)

\* The first run of the transaction function: the read of the float; the
\* reversal and the delete of the expense are buffered.
DeleteExpenseTxn(p) ==
    /\ procs[p].pc = "de_txn"
    /\ procs' = [procs EXCEPT ![p].pc = "de_commit", ![p].conflict = FALSE,
                              ![p].attempts = 1]
    /\ UNCHANGED <<floats, expenses, requested, fleet>>

\* The commit of a transaction whose float was not written since it was
\* read (so floatData is the current document): the reversal, computed from
\* the handler's copy of the expense, and the delete of the expense document
\* are written together; deleting a document that is already gone succeeds.
\* The 200 response follows.
DeleteExpenseCommit(p) ==
    /\ procs[p].pc = "de_commit"
    /\ ~procs[p].conflict
    /\ LET pr == procs[p]
           reverse == ReversalApplies(pr.floatId, pr.organisationId)
       IN  /\ floats' =
                 IF reverse
                 THEN [floats EXCEPT
                          ![pr.floatId].remainingAmount =
                              floats[pr.floatId].remainingAmount
                              + ReverseAdjustment(pr.category, pr.amount)]
                 ELSE floats
           /\ expenses' =
                 IF pr.expenseId \in 1 .. Len(expenses)
                 THEN [expenses EXCEPT ![pr.expenseId] = NoExpense]
                 ELSE expenses
           /\ procs' = [q \in Procs |->
                 IF q = p
                 THEN [Idle EXCEPT !.op = "deleteExpense", !.status = 200,
                                   !.message = "Expense deleted"]
                 ELSE IF reverse
                      THEN Touch(procs, p, pr.floatId)[q]
                      ELSE procs[q]]
    /\ UNCHANGED <<requested, fleet>>

\* The float was written since the transaction read it: the commit fails
\* and the store runs the transaction function again (a fresh read of the
\* float, the same copy of the expense).
DeleteExpenseRetry(p) ==
    /\ procs[p].pc = "de_commit"
    /\ procs[p].conflict
    /\ procs[p].attempts < MaxAttempts
    /\ procs' = [procs EXCEPT ![p].conflict = FALSE,
                              ![p].attempts = procs[p].attempts + 1]
    /\ UNCHANGED <<floats, expenses, requested, fleet>>

\* The store gives up: the catch block answers with the 500.
DeleteExpenseAbort(p) ==
    /\ procs[p].pc = "de_commit"
    /\ procs[p].conflict
    /\ procs[p].attempts >= MaxAttempts
    /\ procs' = Respond(p, "deleteExpense", 500, "Failed to delete expense")
    /\ UNCHANGED <<floats, expenses, requested, fleet>>

(***************************************************************************)
(* Specifications.                                                         *)
(***************************************************************************)
NoCall ==
    [made |-> FALSE, organisationId |-> "-", uid |-> "-", role |-> "-",
     floatId |-> 0, category |-> "-", amount |-> 0]

NoRequest == [p \in Procs |-> NoCall]

\* The whole ledger, from the empty store.
Init ==
    /\ floats = <<>>
    /\ expenses = <<>>
    /\ procs = [p \in Procs |-> Idle]
    /\ requested = NoRequest
    /\ NoFleet

IssueFloatStep(p) ==
    \/ IssueFloatStart(p)
    \/ IssueFloatClose(p)
    \/ IssueFloatSet(p)

CloseFloatStep(p) ==
    \/ CloseFloatStart(p)
    \/ CloseFloatWrite(p)

CreateExpenseStep(p) ==
    \/ CreateExpenseStart(p)
    \/ CreateExpenseCommit(p)
    \/ CreateExpenseRetry(p)
    \/ CreateExpenseAbort(p)

UpdateExpenseStatusStep(p) ==
    \/ UpdateExpenseStatusStart(p)
    \/ UpdateExpenseStatusWrite(p)

DeleteExpenseStep(p) ==
    \/ DeleteExpenseStart(p)
    \/ DeleteExpenseTxn(p)
    \/ DeleteExpenseCommit(p)
    \/ DeleteExpenseRetry(p)
    \/ DeleteExpenseAbort(p)

Next ==
    \E p \in Procs :
        \/ IssueFloatStep(p)
        \/ CloseFloatStep(p)
        \/ CreateExpenseStep(p)
        \/ UpdateExpenseStatusStep(p)
        \/ DeleteExpenseStep(p)

Spec == Init /\ [][Next]_vars

\* Float issuance and closing, from the empty store.
FloatNext ==
    \E p \in Procs :
        \/ IssueFloatStep(p)
        \/ CloseFloatStep(p)

FloatSpec == Init /\ [][FloatNext]_vars

\* Expense submission and deletion against floats that have been issued.
IssuedFloats ==
    { <<NewFloat("o1", "d1", Scale)>> }

ExpenseInit ==
    /\ floats \in IssuedFloats
    /\ expenses = <<>>
    /\ procs = [p \in Procs |-> Idle]
    /\ requested = NoRequest
    /\ NoFleet

ExpenseNext ==
    \E p \in Procs :
        \/ CloseFloatStep(p)
        \/ CreateExpenseStep(p)
        \/ DeleteExpenseStep(p)

ExpenseSpec == ExpenseInit /\ [][ExpenseNext]_vars

\* The change of the float's balance by the first n expenses of a sequence.
RECURSIVE AdjustmentSum(_, _)
AdjustmentSum(submitted, n) ==
    IF n = 0 THEN 0
    ELSE AdjustmentSum(submitted, n - 1)
         + Adjustment(submitted[n].category, submitted[n].amount)

\* Approval, rejection and deletion of submitted expenses: the store after
\* driver d1 was issued a float of MaxExpenses cents and submitted up to
\* MaxExpenses expenses of one cent each against it, of any categories.
StatusInit ==
    /\ \E n \in 1 .. MaxExpenses :
       \E categories \in [1 .. n -> Categories] :
          /\ expenses = [id \in 1 .. n |->
                            NewExpense("o1", "d1", 1, categories[id], Scale)]
          /\ floats = << [NewFloat("o1", "d1", MaxExpenses * Scale) EXCEPT
                           !.remainingAmount =
                               @ + AdjustmentSum(expenses, n)] >>
    /\ procs = [p \in Procs |-> Idle]
    /\ requested = NoRequest
    /\ NoFleet

StatusNext ==
    \E p \in Procs :
        \/ UpdateExpenseStatusStep(p)
        \/ DeleteExpenseStep(p)

StatusSpec == StatusInit /\ [][StatusNext]_vars

\* The submission scenario: against one issued float, each request slot
\* makes one createExpense call, with any identity and any body; the calls
\* run concurrently.  `requested` keeps what each slot asked for.  With two
\* calls a transaction is run again at most once, so the store never gives
\* up on one (SubmitNeverAbandoned).
SubmitInit ==
    /\ floats \in { <<NewFloat("o1", "d1", Scale * cents)>> :
                         cents \in 1 .. MaxIssued }
    /\ expenses = <<>>
    /\ procs = [p \in Procs |-> Idle]
    /\ requested = NoRequest
    /\ NoFleet

SubmitCall(p) ==
    /\ ~requested[p].made
    /\ \E user \in Users :
       \E floatId \in IfRead(RequireRole(user.role, {"driver"}),
                             FloatIdInputs) :
       \E category \in IfRead(ReachesFundsCheck(user, floatId), Categories),
          amountCents \in IfRead(ReachesFundsCheck(user, floatId),
                                 ExpenseAmountInputs) :
           /\ CreateExpenseCall(p, user, category, amountCents, floatId)
           /\ requested' = [requested EXCEPT ![p] =
                 [made |-> TRUE, organisationId |-> user.organisationId,
                  uid |-> user.uid, role |-> user.role, floatId |-> floatId,
                  category |-> category, amount |-> amountCents]]

SubmitNext ==
    \E p \in Procs :
        \/ SubmitCall(p)
        \/ CreateExpenseCommit(p)
        \/ CreateExpenseRetry(p)

SubmitSpec == SubmitInit /\ [][SubmitNext]_vars

\* The round trip: against one issued float, one request at a time (a
\* single slot is in use), a createExpense call with any identity and any
\* body, followed by deleteExpense calls with any identity and any expense
\* id.  With no concurrent writer no transaction is run again.
Sequential == {"p1"}

RoundTripNext ==
    \E p \in Sequential :
        \/ SubmitCall(p)
        \/ CreateExpenseCommit(p)
        \/ DeleteExpenseStart(p)
        \/ DeleteExpenseTxn(p)
        \/ DeleteExpenseCommit(p)

RoundTripSpec == SubmitInit /\ [][RoundTripNext]_vars

\* All five ledger handlers together against an issued float: the requests
\* of one organisation's users about one of its drivers, with amounts of
\* one cent.  One slot runs the float and approval requests (issueFloat,
\* closeFloat, updateExpenseStatus) while the other runs the expense
\* requests (createExpense, deleteExpense), in any interleaving.
Staff == {user \in Users : user.organisationId = "o1"}

AdminSlots == {"p1"}

ExpenseSlots == {"p2"}

FrameNext ==
    \/ \E p \in AdminSlots :
        \/ \E user \in Staff :
              IssueFloatCall(p, user, "d1", "number", Scale)
        \/ IssueFloatClose(p)
        \/ IssueFloatSet(p)
        \/ \E user \in Staff, floatId \in 1 .. MaxFloats :
              CloseFloatCall(p, user, floatId)
        \/ CloseFloatWrite(p)
        \/ \E user \in Staff, action \in {"approve", "reject"},
                 expenseId \in 1 .. MaxExpenses :
              UpdateExpenseStatusCall(p, user, action, expenseId)
        \/ UpdateExpenseStatusWrite(p)
    \/ \E p \in ExpenseSlots :
        \/ \E user \in Staff, category \in Categories,
                 floatId \in 1 .. MaxFloats :
              /\ CreateExpenseCall(p, user, category, Scale, floatId)
              /\ UNCHANGED requested
        \/ CreateExpenseCommit(p)
        \/ CreateExpenseRetry(p)
        \/ CreateExpenseAbort(p)
        \/ \E user \in Staff, expenseId \in 1 .. MaxExpenses :
              DeleteExpenseCall(p, user, expenseId)
        \/ DeleteExpenseTxn(p)
        \/ DeleteExpenseCommit(p)
        \/ DeleteExpenseRetry(p)
        \/ DeleteExpenseAbort(p)

FrameSpec == ExpenseInit /\ [][FrameNext]_vars

\* In the submission scenario no transaction uses up its attempts.
SubmitNeverAbandoned ==
    \A p \in Procs :
        ~(procs[p].pc = "ce_commit" /\ procs[p].conflict
          /\ procs[p].attempts >= MaxAttempts)

TypeOK ==
    /\ Len(floats) <= MaxFloats
    /\ Len(expenses) <= MaxExpenses
    /\ \A p \in Procs : procs[p].attempts <= MaxAttempts

(***************************************************************************)
(* Properties.                                                             *)
(***************************************************************************)
\* Slot p holds the answer (status, message) of a handler `op`.
Answer(p, op, status, message) ==
    /\ procs[p].pc = "idle"
    /\ procs[p].op = op
    /\ procs[p].status = status
    /\ procs[p].message = message

\* Slot p receives the answer (status, message) of a handler `op` in this
\* step.
Answered(p, op, status, message) ==
    /\ procs'[p] # procs[p]
    /\ procs'[p].pc = "idle"
    /\ procs'[p].op = op
    /\ procs'[p].status = status
    /\ procs'[p].message = message

\* The effect an expense is meant to have on its float: a credit for the
\* reimbursement category, a debit otherwise.
SignedAmount(category, amount) ==
    IF category = "WIFI" THEN amount ELSE 0 - amount

\* C1: every float's remainingAmount is >= 0 in every reachable state,
\* whatever expenses were submitted and deleted, in whatever interleaving.
RemainingNonNegative ==
    \A id \in 1 .. Len(floats) : floats[id].remainingAmount >= 0

\* The signed amounts of the undeleted expenses among the first n that
\* reference float id.
RECURSIVE LedgerSum(_, _)
LedgerSum(n, id) ==
    IF n = 0 THEN 0
    ELSE LedgerSum(n - 1, id)
         + (IF expenses[n].exists /\ expenses[n].floatId = id
            THEN SignedAmount(expenses[n].category, expenses[n].amount)
            ELSE 0)

\* C2: for every float, remainingAmount = originalAmount + the amounts of
\* its undeleted reimbursement expenses - the amounts of its other undeleted
\* expenses.
LedgerEquation ==
    \A id \in 1 .. Len(floats) :
        floats[id].remainingAmount =
            floats[id].originalAmount + LedgerSum(Len(expenses), id)

\* Both slots have made their call and hold its answer.
BothAnswered ==
    \A p \in Procs : requested[p].made /\ procs[p].pc = "idle"

\* The two calls are the race of C3: both by the float's driver against
\* float 1, both of a non-reimbursement category, each amount positive and
\* within the issued amount, the two together beyond it.
IsRace ==
    /\ \A p \in Procs :
        /\ requested[p].made
        /\ requested[p].floatId = 1
        /\ requested[p].role = "driver"
        /\ requested[p].category # "WIFI"
        /\ requested[p].organisationId = floats[1].organisationId
        /\ requested[p].uid = floats[1].driverId
        /\ requested[p].amount > 0
        /\ requested[p].amount <= floats[1].originalAmount
    /\ requested["p1"].amount + requested["p2"].amount
          > floats[1].originalAmount

\* C3: of two concurrent non-reimbursement submissions whose amounts each
\* fit the float's remaining amount R but together exceed it, exactly one
\* commits and the other is answered Insufficient float balance; the float
\* ends at R minus the committed amount and is never overdrawn.
RaceSafety ==
    IsRace =>
        /\ floats[1].remainingAmount >= 0
        /\ SubmitNeverAbandoned
        /\ BothAnswered =>
              \E w \in Procs : \E l \in Procs \ {w} :
                  /\ Answer(w, "createExpense", 201, "Expense created")
                  /\ Answer(l, "createExpense", 400,
                            "Insufficient float balance")
                  /\ Len(expenses) = 1
                  /\ expenses[1].amount = requested[w].amount
                  /\ floats[1].remainingAmount =
                        floats[1].originalAmount - requested[w].amount

\* A finished race in which the two amounts differ.
RaceSafetyWitness ==
    /\ IsRace
    /\ BothAnswered
    /\ requested["p1"].amount # requested["p2"].amount
    /\ \E p \in Procs :
          Answer(p, "createExpense", 400, "Insufficient float balance")

\* C4: for every organisation and driver at most one float is active.
AtMostOneActiveFloat ==
    \A id1 \in 1 .. Len(floats), id2 \in 1 .. Len(floats) :
        (/\ floats[id1].active
         /\ floats[id2].active
         /\ floats[id1].organisationId = floats[id2].organisationId
         /\ floats[id1].driverId = floats[id2].driverId) => id1 = id2

\* C5: a float receives at most one reversal per expense: a deleteExpense
\* that commits a change of a float's remainingAmount deletes an expense
\* document that still exists (ids are never reused, so the same expense is
\* never reversed again).
OneReversalPerExpense ==
    [][\A p \in Procs :
          (/\ procs[p].pc = "de_commit"
           /\ Answered(p, "deleteExpense", 200, "Expense deleted")
           /\ floats' # floats)
          => ExpenseExists(procs[p].expenseId)]_vars
\* C6: an expense's status changes only from pending, to approved or to
\* rejected; once approved or rejected it never changes again.
StatusChangesOnce ==
    [][\A id \in 1 .. Len(expenses) :
          (/\ expenses[id].exists
           /\ expenses'[id].exists
           /\ expenses'[id].status # expenses[id].status)
          => /\ expenses[id].status = "pending"
             /\ expenses'[id].status \in {"approved", "rejected"}]_vars

\* Slot p runs the transaction function of its createExpense call in this
\* step (the first run or a run after a failed commit).
RunsSubmit(p) ==
    /\ requested'[p].made
    /\ procs'[p] # procs[p]
    /\ \/ procs[p].pc = "idle"
       \/ procs[p].pc = "ce_commit" /\ procs[p].conflict

\* The call of slot p passes the role, FloatMissing and FloatUnauthorized
\* checks.
CallReachesFundsCheck(call) ==
    /\ call.role = "driver"
    /\ FloatExists(call.floatId)
    /\ floats[call.floatId].organisationId = call.organisationId
    /\ floats[call.floatId].driverId = call.uid

\* C7: a submission that reaches the funds check is answered Insufficient
\* float balance if and only if remainingAmount + adjustment < 0, the
\* adjustment being +amount for the reimbursement category and -amount
\* otherwise.
InsufficientFundsRule ==
    [][\A p \in Procs :
          (RunsSubmit(p) /\ CallReachesFundsCheck(requested'[p]))
          => (Answered(p, "createExpense", 400, "Insufficient float balance")
              <=> floats[requested'[p].floatId].remainingAmount
                    + SignedAmount(requested'[p].category,
                                   requested'[p].amount) < 0)]_vars

\* Some slot is answered 201 by createExpense in this step.
SubmitSucceeds ==
    \E p \in Procs : Answered(p, "createExpense", 201, "Expense created")

\* Some slot commits its deleteExpense transaction in this step.
DeleteCommits ==
    \E p \in Procs :
        /\ procs[p].pc = "de_commit"
        /\ Answered(p, "deleteExpense", 200, "Expense deleted")

\* C8: a successful submission is one atomic step that creates exactly one
\* expense document, pending and referencing the float, and changes that
\* float's remainingAmount by exactly the adjustment; no step creates an
\* expense without the balance change, and no step other than the reversal
\* of a deletion changes a balance without creating the expense.
SubmitIsAtomic ==
    [][/\ SubmitSucceeds <=> Len(expenses') = Len(expenses) + 1
       /\ Len(expenses') \in {Len(expenses), Len(expenses) + 1}
       /\ Len(floats') = Len(floats)
       /\ Len(expenses') = Len(expenses) + 1 =>
            LET e == expenses'[Len(expenses')]
            IN  /\ e.exists
                /\ e.status = "pending"
                /\ FloatExists(e.floatId)
                /\ SubSeq(expenses', 1, Len(expenses)) = expenses
                /\ floats' = [floats EXCEPT
                      ![e.floatId].remainingAmount =
                          @ + SignedAmount(e.category, e.amount)]
       /\ (/\ Len(expenses') = Len(expenses)
           /\ \E id \in 1 .. Len(floats) :
                 floats'[id].remainingAmount # floats[id].remainingAmount)
          => DeleteCommits]_vars

\* A submission has committed a non-zero amount.
SubmitIsAtomicWitness ==
    /\ \E p \in Procs : Answer(p, "createExpense", 201, "Expense created")
    /\ \E id \in 1 .. Len(expenses) :
          /\ expenses[id].exists
          /\ expenses[id].amount # 0
          /\ expenses[id].status = "pending"

\* The three failures of the transaction of createExpense.
SubmitFailures ==
    { <<404, "Float not found">>,
      <<403, "Invalid float or unauthorized">>,
      <<400, "Insufficient float balance">> }

\* C9: a submission that fails with FloatMissing, FloatInvalid or
\* InsufficientFunds is answered with that failure (never with success) and
\* changes nothing: no expense is created, no float is changed.
FailedSubmitChangesNothing ==
    [][\A p \in Procs : \A f \in SubmitFailures :
          Answered(p, "createExpense", f[1], f[2])
          => /\ floats' = floats
             /\ expenses' = expenses]_vars

\* Two submissions have failed, one for insufficient funds and one for a
\* float that is not the caller's, after another one had committed.
FailedSubmitWitness ==
    /\ Answer("p1", "createExpense", 400, "Insufficient float balance")
    /\ Answer("p2", "createExpense", 403, "Invalid float or unauthorized")
    /\ \E id \in 1 .. Len(expenses) : expenses[id].exists

\* C10: every expense is charged by the float's own driver inside the
\* float's organisation: its organisationId and driverId are those of the
\* float it references.
ExpenseByFloatDriver ==
    \A id \in 1 .. Len(expenses) :
        expenses[id].exists =>
            /\ FloatExists(expenses[id].floatId)
            /\ floats[expenses[id].floatId].organisationId
                  = expenses[id].organisationId
            /\ floats[expenses[id].floatId].driverId = expenses[id].driverId

\* An expense has been committed, and a submission by someone who is not
\* the float's driver has been answered FloatUnauthorized.
ExpenseByFloatDriverWitness ==
    /\ \E id \in 1 .. Len(expenses) : expenses[id].exists
    /\ \E p \in Procs :
          Answer(p, "createExpense", 403, "Invalid float or unauthorized")

\* Roles that may issue floats without the owner capability.
NonOwnerIssuers == {"ops", "tour_manager"}

\* C11: an issueFloat call by a non-owner for a driver who has an active
\* float in the caller's organisation is answered Driver already has an
\* active float and changes nothing: no float is created and every float,
\* the active one included, keeps all its fields.
NonOwnerIssueRefused ==
    [][\A p \in Procs :
          (procs[p].pc = "idle" /\ procs'[p] # procs[p]) =>
          \A user \in Users, driverId \in DriverIdInputs,
             amountCents \in FloatAmountInputs :
             (/\ user.role \in NonOwnerIssuers
              /\ driverId # ""
              /\ amountCents > 0
              /\ \E id \in 1 .. Len(floats) :
                    /\ floats[id].active
                    /\ floats[id].organisationId = user.organisationId
                    /\ floats[id].driverId = driverId
              /\ IssueFloatCall(p, user, driverId, "number", amountCents))
             => /\ Answered(p, "issueFloat", 400,
                            "Driver already has an active float")
                /\ floats' = floats
                /\ expenses' = expenses]_vars

\* A non-owner was refused while a float is active.
NonOwnerIssueRefusedWitness ==
    /\ \E p \in Procs :
          Answer(p, "issueFloat", 400, "Driver already has an active float")
    /\ \E id \in 1 .. Len(floats) : floats[id].active

\* C12: an owner's issueFloat closes the driver's active floats and creates
\* the new float in one step: every step of an issueFloat request that
\* changes the floats creates the new float, after which it is the only
\* active float of that driver in the organisation.
OwnerReissueAtomic ==
    [][\A p \in Procs :
          (/\ procs[p].op = "issueFloat"
           /\ procs[p].pc # "idle"
           /\ procs'[p] # procs[p]
           /\ floats' # floats)
          => /\ Len(floats') = Len(floats) + 1
             /\ \A id \in 1 .. Len(floats') :
                   (/\ floats'[id].active
                    /\ floats'[id].organisationId = procs[p].organisationId
                    /\ floats'[id].driverId = procs[p].driverId)
                   => id = Len(floats')]_vars

\* An amount that is a number, positive and a whole number of cents.
PositiveInteger(amountType, amountCents) ==
    /\ amountType = "number"
    /\ amountCents > 0
    /\ amountCents % Scale = 0

\* C13: an issueFloat call whose amount is not a positive integer (zero,
\* negative, not a number, or not a whole number of cents) is answered
\* Invalid float payload, and no float is created or closed.
InvalidAmountRefused ==
    [][\A p \in Procs :
          (procs[p].pc = "idle" /\ procs'[p] # procs[p]) =>
          \A user \in Users, driverId \in DriverIdInputs,
             amountType \in AmountTypeInputs,
             amountCents \in FloatAmountInputs :
             (/\ user.role \in NonOwnerIssuers \cup {"owner"}
              /\ ~PositiveInteger(amountType, amountCents)
              /\ IssueFloatCall(p, user, driverId, amountType, amountCents))
             => /\ Answered(p, "issueFloat", 400, "Invalid float payload")
                /\ floats' = floats]_vars

\* Slot p, running handler `op`, takes a step.
StepOf(p, op) ==
    /\ procs[p].pc # "idle"
    /\ procs[p].op = op
    /\ procs'[p] # procs[p]

\* C14: a successful issueFloat creates exactly one float document, with
\* originalAmount = remainingAmount = the requested amount, active, of the
\* caller's organisation and the given driver; every other float the
\* request changes was an active float of that driver when the request
\* looked, and the change is its closing.  Nothing else creates a float.
IssueCreatesOneFloat ==
    [][/\ \A p \in Procs :
            (procs[p].pc = "idle" /\ procs'[p].pc # "idle") =>
            \A user \in Users, driverId \in DriverIdInputs,
               amountType \in AmountTypeInputs,
               amountCents \in FloatAmountInputs :
               IssueFloatCall(p, user, driverId, amountType, amountCents)
               => /\ procs'[p].organisationId = user.organisationId
                  /\ procs'[p].driverId = driverId
                  /\ procs'[p].amount = amountCents
                  /\ \A id \in procs'[p].toClose :
                        /\ floats[id].active
                        /\ floats[id].organisationId = user.organisationId
                        /\ floats[id].driverId = driverId
       /\ \A p \in Procs :
            StepOf(p, "issueFloat") =>
               IF Answered(p, "issueFloat", 201, "Float issued")
               THEN floats' = Append(floats,
                       [organisationId |-> procs[p].organisationId,
                        driverId |-> procs[p].driverId,
                        originalAmount |-> procs[p].amount,
                        remainingAmount |-> procs[p].amount,
                        active |-> TRUE, closedAt |-> "none"])
               ELSE /\ Len(floats') = Len(floats)
                    /\ \A id \in 1 .. Len(floats) :
                          floats'[id] # floats[id] =>
                             /\ id \in procs[p].toClose
                             /\ floats'[id] =
                                   [floats[id] EXCEPT !.active = FALSE,
                                                      !.closedAt = "now"]
       /\ Len(floats') # Len(floats) =>
             \E p \in Procs :
                Answered(p, "issueFloat", 201, "Float issued")
       /\ expenses' = expenses]_vars

\* An owner has issued a float to a driver whose earlier float it closed.
IssueCreatesOneFloatWitness ==
    /\ \E p \in Procs : Answer(p, "issueFloat", 201, "Float issued")
    /\ Len(floats) = 2
    /\ ~floats[1].active
    /\ floats[1].closedAt = "now"
    /\ floats[2].active
    /\ floats[2].driverId = floats[1].driverId
    /\ floats[2].remainingAmount = floats[2].originalAmount

\* C15: closeFloat on an existing float of the caller's organisation sets
\* active to false and stamps closedAt; it leaves the float's
\* remainingAmount and originalAmount as they are, whatever they are, and
\* changes no other float and no expense.
CloseFloatFrame ==
    [][\A p \in Procs :
          /\ (procs[p].pc = "idle" /\ procs'[p] # procs[p]) =>
                \A user \in Users, floatId \in FloatIdInputs \ {0} :
                   (/\ RequireRole(user.role, {"ops", "owner", "tour_manager"})
                    /\ FloatExists(floatId)
                    /\ floats[floatId].organisationId = user.organisationId
                    /\ CloseFloatCall(p, user, floatId))
                   => /\ procs'[p].pc = "cf_write"
                      /\ procs'[p].floatId = floatId
          /\ StepOf(p, "closeFloat") =>
                LET id == procs[p].floatId
                IN  /\ Answered(p, "closeFloat", 200, "Float closed")
                    /\ floats' = [floats EXCEPT ![id] =
                          [organisationId |-> floats[id].organisationId,
                           driverId |-> floats[id].driverId,
                           originalAmount |-> floats[id].originalAmount,
                           remainingAmount |-> floats[id].remainingAmount,
                           active |-> FALSE, closedAt |-> "now"]]
                    /\ expenses' = expenses]_vars

\* A float was closed with money left on it while an expense exists.
CloseFloatFrameWitness ==
    /\ \E p \in Procs : Answer(p, "closeFloat", 200, "Float closed")
    /\ \E id \in 1 .. Len(floats) :
          /\ ~floats[id].active
          /\ floats[id].closedAt = "now"
          /\ floats[id].remainingAmount # 0
          /\ floats[id].remainingAmount # floats[id].originalAmount
    /\ \E id \in 1 .. Len(expenses) : expenses[id].exists

\* C16: an updateExpenseStatus call on an expense whose status is not
\* pending is answered Expense already processed and changes nothing: the
\* expense keeps the status, approvedBy and approvedAt the first call set.
\* So the second of two sequential calls on an expense always fails.
ProcessedExpenseRefused ==
    [][\A p \in Procs :
          (/\ procs[p].pc = "idle"
           /\ procs'[p] # procs[p]
           /\ procs'[p].op = "updateExpenseStatus") =>
          \A user \in Users, action \in {"approve", "reject"},
             expenseId \in ExpenseIdInputs :
             (/\ user.role \in {"ops", "owner"}
              /\ ExpenseExists(expenseId)
              /\ expenses[expenseId].organisationId = user.organisationId
              /\ expenses[expenseId].status # "pending"
              /\ UpdateExpenseStatusCall(p, user, action, expenseId))
             => /\ Answered(p, "updateExpenseStatus", 400,
                            "Expense already processed")
                /\ expenses' = expenses
                /\ floats' = floats]_vars

\* A call on an approved or rejected expense has been refused.
ProcessedExpenseRefusedWitness ==
    /\ \E p \in Procs :
          Answer(p, "updateExpenseStatus", 400, "Expense already processed")
    /\ \E id \in 1 .. Len(expenses) :
          /\ expenses[id].exists
          /\ expenses[id].status \in {"approved", "rejected"}
          /\ expenses[id].approvedBy # "none"
          /\ expenses[id].approvedAt = "now"

\* C17: no step of updateExpenseStatus, whether the call succeeds or fails,
\* changes a float: approval and rejection never move money.
StatusMovesNoMoney ==
    [][\A p \in Procs :
          (/\ procs'[p] # procs[p]
           /\ procs'[p].op = "updateExpenseStatus"
           /\ procs[p].pc \in {"idle", "us_write"})
          => floats' = floats]_vars

\* An expense that moved money at its submission has been rejected, and
\* the money has not moved back.
StatusMovesNoMoneyWitness ==
    /\ \E p \in Procs :
          Answer(p, "updateExpenseStatus", 200, "Expense status updated")
    /\ \E id \in 1 .. Len(expenses) :
          /\ expenses[id].exists
          /\ expenses[id].status = "rejected"
          /\ expenses[id].amount # 0
    /\ floats[1].remainingAmount # floats[1].originalAmount

\* C18: a committed submission followed, with nothing else touching the
\* float in between, by the committed deletion of that expense returns the
\* float's remainingAmount exactly to its value before the submission;
\* until then the float holds that value plus the expense's signed amount,
\* and no transaction of the round trip has to be run again.
ReversalRoundTrip ==
    /\ \A p \in Procs : ~procs[p].conflict
    /\ Len(expenses) = 1 =>
          floats[1].remainingAmount =
             IF expenses[1].exists
             THEN floats[1].originalAmount
                  + SignedAmount(requested["p1"].category,
                                 requested["p1"].amount)
             ELSE floats[1].originalAmount

\* An expense that changed the balance was submitted and then deleted.
ReversalRoundTripWitness ==
    /\ Len(expenses) = 1
    /\ ~expenses[1].exists
    /\ requested["p1"].amount # 0
    /\ Answer("p1", "deleteExpense", 200, "Expense deleted")

\* Slot p commits, in this step, a transaction on float id that its
\* handler `op` answers with (status, message).
Commits(p, op, pc, id, status, message) ==
    /\ procs[p].pc = pc
    /\ procs[p].floatId = id
    /\ Answered(p, op, status, message)

\* C19: the remainingAmount of an existing float changes only in the step
\* that commits a createExpense transaction on that float or in the step
\* that commits a deleteExpense transaction on it; issueFloat, closeFloat
\* and updateExpenseStatus never change it.
OnlyLedgerMovesMoney ==
    [][\A id \in 1 .. Len(floats) :
          floats'[id].remainingAmount # floats[id].remainingAmount =>
             \E p \in Procs :
                \/ Commits(p, "createExpense", "ce_commit", id,
                           201, "Expense created")
                \/ Commits(p, "deleteExpense", "de_commit", id,
                           200, "Expense deleted")]_vars

\* Every other handler has completed against a float whose balance the
\* expenses have changed: the float was closed, a new one was issued and an
\* expense was approved or rejected.
OnlyLedgerMovesMoneyWitness ==
    /\ Len(floats) = 2
    /\ ~floats[1].active
    /\ floats[1].remainingAmount # floats[1].originalAmount
    /\ \E id \in 1 .. Len(expenses) :
          /\ expenses[id].exists
          /\ expenses[id].status # "pending"

\* C20: every expense document has a positive amount that is a whole number
\* of cents: a submission with a zero or negative amount creates no
\* expense.
ExpenseAmountPositive ==
    \A id \in 1 .. Len(expenses) :
        expenses[id].exists =>
            /\ expenses[id].amount > 0
            /\ expenses[id].amount % Scale = 0

(***************************************************************************)
(* Vehicle status machine: createIssue, updateIssueStatus,                 *)
(* submitInspection, createTour and deleteTour.                            *)
(*                                                                         *)
(* A vehicle document is modelled by its organisationId, status and        *)
(* currentDriverId.  The documents these handlers write and none of them   *)
(* reads (the inspection document, the vehicle's latest_odometer, the      *)
(* notification e-mails) are left out; so are the `users` documents, which *)
(* no handler writes.  Vehicle and issue documents are not deleted by      *)
(* these handlers and keep their organisationId.                           *)
(***************************************************************************)
\* number of vehicle documents
NumVehicles == 2
\* number of issue documents ever created
MaxIssues == 2
\* number of tour documents ever created
MaxTours == 1
\* longest `results` array of a submitted inspection
MaxResults == 2
\* createTour: a tour of more passengers than this is stored as confirmed
ConfirmedAbove == 7

\* VehicleStatus (dtos/types)
VehicleStatuses == {"ready", "issue", "maintenance_required", "out_of_service"}

\* allowedStatuses of updateIssueStatus
AllowedStatuses == {"reported", "scheduled", "in_progress", "done"}

\* req.body.status of updateIssueStatus
IssueStatusInputs == AllowedStatuses \cup {"closed"}
\* req.body.vehicleId; 0 is an absent (falsy) vehicleId, NumVehicles + 1 an
\* id of no document
VehicleIdInputs == 0 .. (NumVehicles + 1)
\* req.params.id of updateIssueStatus; MaxIssues + 1 names no document
IssueIdInputs == 1 .. (MaxIssues + 1)
\* req.body.tourId of submitInspection; 0 is an absent tourId
TourIdInputs == 0 .. (MaxTours + 1)
\* req.body.severity and req.body.description of createIssue; "" is absent
SeverityInputs == {"", "low"}
DescriptionInputs == {"", "leak"}
\* req.body.pax of createTour
PaxInputs == {ConfirmedAbove, ConfirmedAbove + 1}
\* whether req.body of createTour has both startDate and endDate
DatesInputs == BOOLEAN

\* inspection_types (constants/inspection_items): the checklist of each
\* inspection type; an item may be marked safetyCritical true or false, or
\* carry no such mark
inspection_types ==
    { [type |-> "pre_trip",
       items |-> << [key |-> "brakes", safetyCritical |-> "true"],
                    [key |-> "tyre_tread_depth", safetyCritical |-> "true"],
                    [key |-> "cleanliness", safetyCritical |-> "false"],
                    [key |-> "odometer_reading", safetyCritical |-> "absent"] >>] }

\* req.body.type of submitInspection; "" is absent
TypeInputs == {"", "pre_trip", "post_trip"}
\* keys and values of the submitted results: a value is the boolean true or
\* false, a number or a string
ResultKeys == {"brakes", "tyre_tread_depth", "cleanliness"}
ResultValues == {"true", "false", "number", "string"}
\* req.body.results of submitInspection: absent, a value that is not an
\* array, or an array of {key, value}
ResultsInputs ==
    { [kind |-> "absent", items |-> <<>>], [kind |-> "object", items |-> <<>>] }
    \cup { [kind |-> "array", items |-> items] :
             items \in UNION { [1 .. n -> [key : ResultKeys, value : ResultValues]] :
                                 n \in 0 .. MaxResults } }

VehicleExists(id) == id \in 1 .. Len(vehicles)

IssueExists(id) == id \in 1 .. Len(issues)

TourExists(id) == id \in 1 .. Len(tours) /\ tours[id].exists

\* updateDocument('vehicles', id, {status, ...})
SetVehicleStatus(id, status) ==
    [vehicles EXCEPT ![id] = [@ EXCEPT !.status = status]]

(***************************************************************************)
(* createIssue                                                             *)
(***************************************************************************)
\* The document createIssue and submitInspection store.
NewIssue(organisationId, vehicleId, driverId, severity, description) ==
    [organisationId |-> organisationId, vehicleId |-> vehicleId,
     driverId |-> driverId, severity |-> severity,
     description |-> description, status |-> "reported"]

\* Handlers in flight that are about to store a new issue.
IssueWriters == {q \in Procs : procs[q].pc \in {"ci_set", "si_issue"}}

\* A call of createIssue with the given identity and body: the role check,
\* the payload validation and the read of the vehicle.
CreateIssueCall(p, user, vehicleId, severity, description) ==
    /\ procs[p].pc = "idle"
    /\ Len(issues) + Cardinality(IssueWriters) < MaxIssues
    /\ procs' =
          IF ~RequireRole(user.role, {"driver", "owner", "ops"})
          THEN Respond(p, "createIssue", 403, "Forbidden: insufficient role")
          ELSE IF vehicleId = 0 \/ severity = "" \/ description = ""
          THEN Respond(p, "createIssue", 400, "Missing required fields")
          ELSE IF ~VehicleExists(vehicleId)
          THEN Respond(p, "createIssue", 404, "Vehicle not found")
          ELSE IF vehicles[vehicleId].organisationId # user.organisationId
          THEN Respond(p, "createIssue", 403,
                       "Vehicle does not belong to organisation")
          ELSE [procs EXCEPT ![p] =
                   [Idle EXCEPT !.pc = "ci_set", !.op = "createIssue",
                                !.organisationId = user.organisationId,
                                !.uid = user.uid,
                                !.vehicleId = vehicleId,
                                !.severity = severity,
                                !.description = <<description>>]]
    /\ UNCHANGED <<ledger, fleet>>

CreateIssueStart(p) ==
    \E user \in Users :
    \E vehicleId \in IfRead(RequireRole(user.role,
                               {"driver", "owner", "ops"}), VehicleIdInputs),
       severity \in IfRead(RequireRole(user.role,
                               {"driver", "owner", "ops"}), SeverityInputs),
       description \in IfRead(RequireRole(user.role,
                               {"driver", "owner", "ops"}),
                              DescriptionInputs) :
        CreateIssueCall(p, user, vehicleId, severity, description)

\* setDocument('issues', issueRef.id, {...})
CreateIssueSet(p) ==
    /\ procs[p].pc = "ci_set"
    /\ issues' = Append(issues,
                        NewIssue(procs[p].organisationId, procs[p].vehicleId,
                                 procs[p].uid, procs[p].severity,
                                 procs[p].description))
    /\ procs' = [procs EXCEPT ![p].pc = "ci_status"]
    /\ UNCHANGED <<ledger, vehicles, tours, projection>>

\* Variant: the vehicle is marked only when it was ready.
CreateIssueStatusReadyOnly(p) ==
    /\ procs[p].pc = "ci_status"
    /\ vehicles' = IF vehicles[procs[p].vehicleId].status = "ready"
                   THEN SetVehicleStatus(procs[p].vehicleId, "issue")
                   ELSE vehicles
    /\ procs' = Respond(p, "createIssue", 201, "Issue created")
    /\ UNCHANGED <<ledger, issues, tours, projection>>

\* updateDocument('vehicles', vehicleId, {status: VehicleStatus.ISSUE}) and
\* the response.
CreateIssueStatus(p) ==
    /\ procs[p].pc = "ci_status"
    /\ vehicles' = SetVehicleStatus(procs[p].vehicleId, "issue")
    /\ procs' = Respond(p, "createIssue", 201, "Issue created")
    /\ UNCHANGED <<ledger, issues, tours, projection>>

(***************************************************************************)
(* updateIssueStatus                                                       *)
(***************************************************************************)
\* The query for the issues of the organisation and the vehicle whose
\* status is not done.
OpenIssues(organisationId, vehicleId) ==
    {id \in 1 .. Len(issues) :
        /\ issues[id].organisationId = organisationId
        /\ issues[id].vehicleId = vehicleId
        /\ issues[id].status # "done"}

\* Variant: the issue's organisation is not compared with the caller's.
UpdateIssueStatusCallAnyIssue(p, user, issueId, status) ==
    /\ procs[p].pc = "idle"
    /\ procs' =
          IF ~RequireRole(user.role, {"ops", "owner"})
          THEN Respond(p, "updateIssueStatus", 403,
                       "Forbidden: insufficient role")
          ELSE IF status \notin AllowedStatuses
          THEN Respond(p, "updateIssueStatus", 400, "Invalid issue status")
          ELSE IF ~IssueExists(issueId)
          THEN Respond(p, "updateIssueStatus", 404, "Issue not found")
          ELSE [procs EXCEPT ![p] =
                   [Idle EXCEPT !.pc = "ui_update",
                                !.op = "updateIssueStatus",
                                !.organisationId = user.organisationId,
                                !.issueId = issueId,
                                !.vehicleId = issues[issueId].vehicleId,
                                !.issueStatus = status]]
    /\ UNCHANGED <<ledger, fleet>>

\* A call of updateIssueStatus with the given identity, issue id and body:
\* the role check, the status validation and the read of the issue.
UpdateIssueStatusCall(p, user, issueId, status) ==
    /\ procs[p].pc = "idle"
    /\ procs' =
          IF ~RequireRole(user.role, {"ops", "owner"})
          THEN Respond(p, "updateIssueStatus", 403,
                       "Forbidden: insufficient role")
          ELSE IF status \notin AllowedStatuses
          THEN Respond(p, "updateIssueStatus", 400, "Invalid issue status")
          ELSE IF ~IssueExists(issueId)
          THEN Respond(p, "updateIssueStatus", 404, "Issue not found")
          ELSE IF issues[issueId].organisationId # user.organisationId
          THEN Respond(p, "updateIssueStatus", 403,
                       "Issue does not belong to organisation")
          ELSE [procs EXCEPT ![p] =
                   [Idle EXCEPT !.pc = "ui_update",
                                !.op = "updateIssueStatus",
                                !.organisationId = user.organisationId,
                                !.issueId = issueId,
                                !.vehicleId = issues[issueId].vehicleId,
                                !.issueStatus = status]]
    /\ UNCHANGED <<ledger, fleet>>

UpdateIssueStatusStart(p) ==
    \E user \in Users :
    \E status \in IfRead(RequireRole(user.role, {"ops", "owner"}),
                         IssueStatusInputs) :
    \E issueId \in IfRead(RequireRole(user.role, {"ops", "owner"})
                             /\ status \in AllowedStatuses, IssueIdInputs) :
        UpdateIssueStatusCall(p, user, issueId, status)

\* Variant: an issue taken to a status other than done marks its vehicle
\* as having an issue.
UpdateIssueStatusWriteMarksVehicle(p) ==
    /\ procs[p].pc = "ui_update"
    /\ issues' = [issues EXCEPT ![procs[p].issueId] =
                     [@ EXCEPT !.status = procs[p].issueStatus]]
    /\ vehicles' = IF procs[p].issueStatus = "done"
                   THEN vehicles
                   ELSE SetVehicleStatus(procs[p].vehicleId, "issue")
    /\ procs' = IF procs[p].issueStatus = "done"
                THEN [procs EXCEPT ![p].pc = "ui_query"]
                ELSE Respond(p, "updateIssueStatus", 200,
                             "Issue status updated")
    /\ UNCHANGED <<ledger, tours, projection>>

\* updateDocument('issues', issueId, {status, ...}); a status other than
\* done ends the handler.
UpdateIssueStatusWrite(p) ==
    /\ procs[p].pc = "ui_update"
    /\ issues' = [issues EXCEPT ![procs[p].issueId] =
                     [@ EXCEPT !.status = procs[p].issueStatus]]
    /\ procs' = IF procs[p].issueStatus = "done"
                THEN [procs EXCEPT ![p].pc = "ui_query"]
                ELSE Respond(p, "updateIssueStatus", 200,
                             "Issue status updated")
    /\ UNCHANGED <<ledger, vehicles, tours, projection>>

\* Variant: the query counts the issues of every vehicle of the
\* organisation.
UpdateIssueStatusQueryAnyVehicle(p) ==
    /\ procs[p].pc = "ui_query"
    /\ procs' = IF \A v \in 1 .. Len(vehicles) :
                      OpenIssues(procs[p].organisationId, v) = {}
                THEN [procs EXCEPT ![p].pc = "ui_ready"]
                ELSE Respond(p, "updateIssueStatus", 200,
                             "Issue status updated")
    /\ UNCHANGED <<ledger, fleet>>

\* The query for the remaining open issues of the vehicle.
UpdateIssueStatusQuery(p) ==
    /\ procs[p].pc = "ui_query"
    /\ procs' = IF OpenIssues(procs[p].organisationId,
                              procs[p].vehicleId) = {}
                THEN [procs EXCEPT ![p].pc = "ui_ready"]
                ELSE Respond(p, "updateIssueStatus", 200,
                             "Issue status updated")
    /\ UNCHANGED <<ledger, fleet>>

\* Variant: the vehicle is set to ready only if it still has no open issue
\* at the time of the write.
UpdateIssueStatusReadyRechecks(p) ==
    /\ procs[p].pc = "ui_ready"
    /\ vehicles' = IF OpenIssues(procs[p].organisationId,
                                 procs[p].vehicleId) = {}
                   THEN SetVehicleStatus(procs[p].vehicleId, "ready")
                   ELSE vehicles
    /\ procs' = Respond(p, "updateIssueStatus", 200, "Issue status updated")
    /\ UNCHANGED <<ledger, issues, tours, projection>>

\* updateDocument('vehicles', issue.vehicleId, {status: READY}) and the
\* response.
UpdateIssueStatusReady(p) ==
    /\ procs[p].pc = "ui_ready"
    /\ vehicles' = SetVehicleStatus(procs[p].vehicleId, "ready")
    /\ procs' = Respond(p, "updateIssueStatus", 200, "Issue status updated")
    /\ UNCHANGED <<ledger, issues, tours, projection>>

(***************************************************************************)
(* submitInspection                                                        *)
(***************************************************************************)
\* results.map: a string under the key tyre_tread_depth becomes an array of
\* measurements.
TransformedResults(results) ==
    [i \in 1 .. Len(results) |->
        IF results[i].key = "tyre_tread_depth" /\ results[i].value = "string"
        THEN [results[i] EXCEPT !.value = "array"]
        ELSE results[i]]

\* transformedResults.find(r => r.key === key): the index of the first
\* result with the key, 0 if there is none.
FindResult(results, key) ==
    IF \E i \in 1 .. Len(results) : results[i].key = key
    THEN CHOOSE i \in 1 .. Len(results) :
            /\ results[i].key = key
            /\ \A j \in 1 .. (i - 1) : results[j].key # key
    ELSE 0

\* Variant: an item with no result does not fail.
ItemFailsWhenFalseOnly(results, item) ==
    FindResult(results, item.key) # 0
    /\ results[FindResult(results, item.key)].value = "false"

\* match ? match.value === false : true
ItemFails(results, item) ==
    IF FindResult(results, item.key) # 0
    THEN results[FindResult(results, item.key)].value = "false"
    ELSE TRUE

\* The keys of the template's safety-critical items that fail, in the
\* template's order.
SafetyFailures(items, results) ==
    LET critical == SelectSeq(items,
                        LAMBDA item : item.safetyCritical = "true")
        failed == SelectSeq(critical,
                        LAMBDA item : ItemFails(results, item))
    IN  [i \in 1 .. Len(failed) |-> failed[i].key]

Template(type) == CHOOSE t \in inspection_types : t.type = type

\* Variant: an issue is stored for every inspection of a vehicle.
ReportsIssueWithVehicleOnly(safetyFailures, vehicleId) ==
    vehicleId # 0

\* safetyFailures.length > 0 && vehicleId
ReportsIssue(safetyFailures, vehicleId) ==
    Len(safetyFailures) > 0 /\ vehicleId # 0

\* A call of submitInspection with the given identity and body: the role
\* check, the payload validation, the reads of the tour and of the vehicle
\* and the computation of the failing safety-critical items.
SubmitInspectionCall(p, user, tourId, vehicleId, type, results) ==
    /\ procs[p].pc = "idle"
    /\ Len(issues) + Cardinality(IssueWriters) < MaxIssues
    /\ procs' =
          IF ~RequireRole(user.role, {"driver"})
          THEN Respond(p, "submitInspection", 403,
                       "Forbidden: insufficient role")
          ELSE IF type = "" \/ results.kind = "absent"
          THEN Respond(p, "submitInspection", 400, "Missing required fields")
          ELSE IF ~\E t \in inspection_types : t.type = type
          THEN Respond(p, "submitInspection", 400, "Invalid inspection type")
          ELSE IF tourId # 0 /\ ~TourExists(tourId)
          THEN Respond(p, "submitInspection", 404, "Tour not found")
          ELSE IF tourId # 0
                  /\ tours[tourId].organisationId # user.organisationId
          THEN Respond(p, "submitInspection", 403,
                       "Tour does not belong to organisation")
          ELSE IF vehicleId # 0 /\ ~VehicleExists(vehicleId)
          THEN Respond(p, "submitInspection", 404, "Vehicle not found")
          ELSE IF vehicleId # 0
                  /\ vehicles[vehicleId].organisationId # user.organisationId
          THEN Respond(p, "submitInspection", 403,
                       "Vehicle does not belong to organisation")
          ELSE IF vehicleId # 0 /\ tourId # 0
                  /\ tours[tourId].vehicleId # vehicleId
          THEN Respond(p, "submitInspection", 400,
                       "Vehicle mismatch for this tour")
          ELSE IF results.kind # "array"
          THEN Respond(p, "submitInspection", 400, "Results must be an array")
          ELSE LET safetyFailures ==
                       SafetyFailures(Template(type).items,
                                      TransformedResults(results.items))
               IN  IF ReportsIssue(safetyFailures, vehicleId)
                   THEN [procs EXCEPT ![p] =
                            [Idle EXCEPT
                                !.pc = "si_issue",
                                !.op = "submitInspection",
                                !.organisationId = user.organisationId,
                                !.uid = user.uid,
                                !.vehicleId = vehicleId,
                                !.tourId = tourId,
                                !.severity = "high",
                                !.description =
                                    <<"Safety critical items failed">>
                                    \o safetyFailures]]
                   ELSE Respond(p, "submitInspection", 201,
                                "Inspection submitted")
    /\ UNCHANGED <<floats, expenses, fleet>>

SubmitInspectionStart(p) ==
    \E user \in Users :
    \E type \in IfRead(RequireRole(user.role, {"driver"}), TypeInputs),
       results \in IfRead(RequireRole(user.role, {"driver"}), ResultsInputs),
       tourId \in IfRead(RequireRole(user.role, {"driver"}), TourIdInputs),
       vehicleId \in IfRead(RequireRole(user.role, {"driver"}),
                            VehicleIdInputs) :
        /\ SubmitInspectionCall(p, user, tourId, vehicleId, type, results)
        /\ UNCHANGED requested

\* setDocument('issues', issueRef.id, {..., severity: 'high', ...})
SubmitInspectionIssue(p) ==
    /\ procs[p].pc = "si_issue"
    /\ issues' = Append(issues,
                        NewIssue(procs[p].organisationId, procs[p].vehicleId,
                                 procs[p].uid, procs[p].severity,
                                 procs[p].description))
    /\ procs' = [procs EXCEPT ![p].pc = "si_status"]
    /\ UNCHANGED <<ledger, vehicles, tours, projection>>

\* updateDocument('vehicles', vehicleId, {status: 'issue'}) and the
\* response.
SubmitInspectionStatus(p) ==
    /\ procs[p].pc = "si_status"
    /\ vehicles' = SetVehicleStatus(procs[p].vehicleId, "issue")
    /\ procs' = Respond(p, "submitInspection", 201, "Inspection submitted")
    /\ UNCHANGED <<ledger, issues, tours, projection>>

(***************************************************************************)
(* createTour                                                              *)
(***************************************************************************)
\* pax > 7 ? 'confirmed' : 'planned'
TourStatus(pax) == IF pax > ConfirmedAbove THEN "confirmed" ELSE "planned"

\* A call of createTour with the given identity and body: the role check,
\* the payload validation and the read of the vehicle.
CreateTourCall(p, user, dates, pax, vehicleId, driverId) ==
    /\ procs[p].pc = "idle"
    /\ Len(tours) + Cardinality({q \in Procs : procs[q].pc = "ct_set"})
          < MaxTours
    /\ procs' =
          IF ~RequireRole(user.role, {"ops", "owner", "tour_manager"})
          THEN Respond(p, "createTour", 403, "Forbidden: insufficient role")
          ELSE IF ~dates
          THEN Respond(p, "createTour", 400,
                       "Missing required fields: startDate and endDate")
          ELSE IF vehicleId # 0 /\ ~VehicleExists(vehicleId)
          THEN Respond(p, "createTour", 404, "Vehicle not found")
          ELSE IF vehicleId # 0
                  /\ vehicles[vehicleId].organisationId # user.organisationId
          THEN Respond(p, "createTour", 403,
                       "Vehicle does not belong to organisation")
          ELSE IF vehicleId # 0 /\ vehicles[vehicleId].status # "ready"
          THEN Respond(p, "createTour", 400,
                       "Vehicle is not ready for assignment")
          ELSE [procs EXCEPT ![p] =
                   [Idle EXCEPT !.pc = "ct_set", !.op = "createTour",
                                !.organisationId = user.organisationId,
                                !.driverId = driverId,
                                !.vehicleId = vehicleId,
                                !.tourStatus = TourStatus(pax)]]
    /\ UNCHANGED <<ledger, fleet>>

CreateTourStart(p) ==
    \E user \in Users :
    \E dates \in IfRead(RequireRole(user.role,
                           {"ops", "owner", "tour_manager"}), DatesInputs) :
    \E pax \in IfRead(RequireRole(user.role,
                           {"ops", "owner", "tour_manager"}) /\ dates,
                      PaxInputs),
       vehicleId \in IfRead(RequireRole(user.role,
                           {"ops", "owner", "tour_manager"}) /\ dates,
                            VehicleIdInputs),
       driverId \in IfRead(RequireRole(user.role,
                           {"ops", "owner", "tour_manager"}) /\ dates,
                           DriverIdInputs) :
        CreateTourCall(p, user, dates, pax, vehicleId, driverId)

\* setDocument('tours', tourRef.id, {...}); a tour without a vehicle ends
\* the handler.
CreateTourSet(p) ==
    /\ procs[p].pc = "ct_set"
    /\ tours' = Append(tours,
                       [exists |-> TRUE,
                        organisationId |-> procs[p].organisationId,
                        driverId |-> procs[p].driverId,
                        vehicleId |-> procs[p].vehicleId,
                        status |-> procs[p].tourStatus])
    /\ procs' = IF procs[p].vehicleId # 0
                THEN [procs EXCEPT ![p].pc = "ct_assign"]
                ELSE Respond(p, "createTour", 201, "Tour created")
    /\ UNCHANGED <<ledger, vehicles, issues, projection>>

\* updateDocument('vehicles', vehicleId, {currentDriverId, ..., status:
\* READY}) and the response.
CreateTourAssign(p) ==
    /\ procs[p].pc = "ct_assign"
    /\ vehicles' = [vehicles EXCEPT ![procs[p].vehicleId] =
                       [@ EXCEPT !.currentDriverId = procs[p].driverId,
                                 !.status = "ready"]]
    /\ procs' = Respond(p, "createTour", 201, "Tour created")
    /\ UNCHANGED <<ledger, issues, tours, projection>>

(***************************************************************************)
(* deleteTour                                                              *)
(***************************************************************************)
\* A call of deleteTour with the given identity and tour id: the role check
\* and the read of the tour.
DeleteTourCall(p, user, tourId) ==
    /\ procs[p].pc = "idle"
    /\ procs' =
          IF ~RequireRole(user.role, {"ops", "owner", "tour_manager"})
          THEN Respond(p, "deleteTour", 403, "Forbidden: insufficient role")
          ELSE IF ~TourExists(tourId)
          THEN Respond(p, "deleteTour", 404, "Tour not found")
          ELSE IF tours[tourId].organisationId # user.organisationId
          THEN Respond(p, "deleteTour", 403,
                       "Tour does not belong to organisation")
          ELSE IF tours[tourId].status = "active"
          THEN Respond(p, "deleteTour", 400, "Cannot delete an active tour")
          ELSE [procs EXCEPT ![p] =
                   [Idle EXCEPT !.pc = IF tours[tourId].vehicleId # 0
                                       THEN "dt_vehicle" ELSE "dt_delete",
                                !.op = "deleteTour",
                                !.organisationId = user.organisationId,
                                !.tourId = tourId,
                                !.vehicleId = tours[tourId].vehicleId,
                                !.driverId = tours[tourId].driverId]]
    /\ UNCHANGED <<ledger, fleet>>

DeleteTourStart(p) ==
    \E user \in Users :
    \E tourId \in IfRead(RequireRole(user.role,
                            {"ops", "owner", "tour_manager"}),
                         1 .. (MaxTours + 1)) :
        DeleteTourCall(p, user, tourId)

\* The read of the tour's vehicle: it is unassigned only if it is still
\* assigned to the tour's driver.
DeleteTourVehicle(p) ==
    /\ procs[p].pc = "dt_vehicle"
    /\ procs' = [procs EXCEPT ![p].pc =
                    IF /\ VehicleExists(procs[p].vehicleId)
                       /\ vehicles[procs[p].vehicleId].organisationId
                             = procs[p].organisationId
                       /\ vehicles[procs[p].vehicleId].currentDriverId
                             = procs[p].driverId
                    THEN "dt_release" ELSE "dt_delete"]
    /\ UNCHANGED <<ledger, fleet>>

\* updateDocument('vehicles', tour.vehicleId, {currentDriverId: null, ...,
\* status: READY})
DeleteTourRelease(p) ==
    /\ procs[p].pc = "dt_release"
    /\ vehicles' = [vehicles EXCEPT ![procs[p].vehicleId] =
                       [@ EXCEPT !.currentDriverId = "",
                                 !.status = "ready"]]
    /\ procs' = [procs EXCEPT ![p].pc = "dt_delete"]
    /\ UNCHANGED <<ledger, issues, tours, projection>>

\* deleteDocument('tours', tourId) and the response.
DeleteTourDelete(p) ==
    /\ procs[p].pc = "dt_delete"
    /\ tours' = [tours EXCEPT ![procs[p].tourId] = NoTour]
    /\ procs' = Respond(p, "deleteTour", 200, "Tour deleted")
    /\ UNCHANGED <<ledger, vehicles, issues, projection>>

(***************************************************************************)
(* Specifications of the vehicle status machine.                           *)
(***************************************************************************)
\* The vehicles of organisation o1, none assigned to a driver, each in any
\* status (addVehicle stores a vehicle as ready and updateVehicle moves it
\* to any status), with no issue and no tour stored yet.
FleetInit ==
    /\ vehicles \in [1 .. NumVehicles ->
                        [organisationId : {"o1"}, status : VehicleStatuses,
                         currentDriverId : {""}]]
    /\ issues = <<>>
    /\ tours = <<>>
    /\ projection = NoProjection
    /\ floats = <<>>
    /\ expenses = <<>>
    /\ requested = NoRequest
    /\ procs = [p \in Procs |-> Idle]

CreateIssueStep(p) ==
    \/ CreateIssueStart(p)
    \/ CreateIssueSet(p)
    \/ CreateIssueStatus(p)

UpdateIssueStatusStep(p) ==
    \/ UpdateIssueStatusStart(p)
    \/ UpdateIssueStatusWrite(p)
    \/ UpdateIssueStatusQuery(p)
    \/ UpdateIssueStatusReady(p)

SubmitInspectionStep(p) ==
    \/ SubmitInspectionStart(p)
    \/ SubmitInspectionIssue(p)
    \/ SubmitInspectionStatus(p)

CreateTourStep(p) ==
    \/ CreateTourStart(p)
    \/ CreateTourSet(p)
    \/ CreateTourAssign(p)

DeleteTourStep(p) ==
    \/ DeleteTourStart(p)
    \/ DeleteTourVehicle(p)
    \/ DeleteTourRelease(p)
    \/ DeleteTourDelete(p)

\* Issues reported and worked off concurrently: a driver of organisation
\* o1 reports issues against its vehicles while an ops user moves its
\* issues to any allowed status.
Reporter == [uid |-> "d1", role |-> "driver", organisationId |-> "o1"]

Manager == [uid |-> "m1", role |-> "ops", organisationId |-> "o1"]

IssueNext ==
    \E p \in Procs :
        \/ \E vehicleId \in 1 .. NumVehicles :
              CreateIssueCall(p, Reporter, vehicleId, "low", "leak")
        \/ CreateIssueSet(p)
        \/ CreateIssueStatus(p)
        \/ \E issueId \in 1 .. MaxIssues, status \in AllowedStatuses :
              UpdateIssueStatusCall(p, Manager, issueId, status)
        \/ UpdateIssueStatusWrite(p)
        \/ UpdateIssueStatusQuery(p)
        \/ UpdateIssueStatusReady(p)

IssueSpec == FleetInit /\ [][IssueNext]_vars

\* Tours planned and cancelled while issues are reported: an ops user of
\* organisation o1 creates tours with or without a vehicle and a driver and
\* deletes them, while a driver reports issues against the vehicles.
TourNext ==
    \E p \in Procs :
        \/ \E pax \in PaxInputs, vehicleId \in 0 .. NumVehicles,
                 driverId \in {"", "d1"} :
              CreateTourCall(p, Manager, TRUE, pax, vehicleId, driverId)
        \/ CreateTourSet(p)
        \/ CreateTourAssign(p)
        \/ \E tourId \in 1 .. MaxTours : DeleteTourCall(p, Manager, tourId)
        \/ DeleteTourVehicle(p)
        \/ DeleteTourRelease(p)
        \/ DeleteTourDelete(p)
        \/ \E vehicleId \in 1 .. NumVehicles :
              CreateIssueCall(p, Reporter, vehicleId, "low", "leak")
        \/ CreateIssueSet(p)
        \/ CreateIssueStatus(p)

TourSpec == FleetInit /\ [][TourNext]_vars

\* C21: no step changes a vehicle's status to ready while an issue of the
\* vehicle's organisation and the vehicle with a status other than done is
\* stored.
ReadyOnlyWithoutOpenIssue ==
    [][\A v \in 1 .. NumVehicles :
          (vehicles[v].status # "ready" /\ vehicles'[v].status = "ready")
          => (OpenIssues(vehicles[v].organisationId, v) = {})']_vars

\* The reporting scenario: drivers report issues and submit pre-trip
\* inspections without a tour, with or without a vehicle, with results of
\* at most one entry, concurrently.
ShortResults == {results \in ResultsInputs : Len(results.items) <= 1}

ReportNext ==
    \E p \in Procs :
        \/ \E vehicleId \in 1 .. NumVehicles :
              CreateIssueCall(p, Reporter, vehicleId, "low", "leak")
        \/ CreateIssueSet(p)
        \/ CreateIssueStatus(p)
        \/ \E vehicleId \in 0 .. NumVehicles, results \in ShortResults :
              /\ SubmitInspectionCall(p, Reporter, 0, vehicleId, "pre_trip",
                                      results)
              /\ UNCHANGED requested
        \/ SubmitInspectionIssue(p)
        \/ SubmitInspectionStatus(p)

ReportSpec == FleetInit /\ [][ReportNext]_vars

\* C22: when createIssue answers that the issue was created, and when
\* submitInspection answers after storing an issue for failing
\* safety-critical items, the vehicle the request referenced has status
\* issue.
ReportedVehicleIsIssue ==
    [][\A p \in Procs :
          (procs[p].pc \in {"ci_status", "si_status"}
           /\ procs'[p].pc = "idle" /\ procs'[p].status = 201)
          => vehicles'[procs[p].vehicleId].status = "issue"]_vars

\* One vehicle has been reported by createIssue and the other by an
\* inspection, both requests have been answered and both vehicles have
\* status issue.
ReportedVehicleIsIssueWitness ==
    /\ \A p \in Procs : procs[p].pc = "idle" /\ procs[p].status = 201
    /\ \E i, j \in 1 .. Len(issues) :
          /\ issues[i].severity = "low"
          /\ issues[j].severity = "high"
          /\ issues[i].vehicleId # issues[j].vehicleId
    /\ \A v \in 1 .. NumVehicles : vehicles[v].status = "issue"

\* C23: no step of createIssue and updateIssueStatus changes the status of
\* a vehicle that is in maintenance_required or out_of_service.
StickyStatuses ==
    [][\A v \in 1 .. NumVehicles :
          vehicles[v].status \in {"maintenance_required", "out_of_service"}
          => vehicles'[v].status = vehicles[v].status]_vars

\* The repair scenario: issues are reported and worked off one request at
\* a time (a single slot is in use).
RepairNext ==
    \E p \in Sequential :
        \/ \E vehicleId \in 1 .. NumVehicles :
              CreateIssueCall(p, Reporter, vehicleId, "low", "leak")
        \/ CreateIssueSet(p)
        \/ CreateIssueStatus(p)
        \/ \E issueId \in 1 .. MaxIssues, status \in AllowedStatuses :
              UpdateIssueStatusCall(p, Manager, issueId, status)
        \/ UpdateIssueStatusWrite(p)
        \/ UpdateIssueStatusQuery(p)
        \/ UpdateIssueStatusReady(p)

RepairSpec == FleetInit /\ [][RepairNext]_vars

\* C24: with one request at a time, an updateIssueStatus to done that ends
\* after its query alone leaves an open issue of the vehicle and changes no
\* vehicle, and one that ends after its write to the vehicle leaves no open
\* issue of the vehicle and the vehicle ready.
DoneSetsReadyIffNoneOpen ==
    [][\A p \in Procs :
          (procs[p].pc \in {"ui_query", "ui_ready"} /\ procs'[p].pc = "idle")
          => \A v \in 1 .. NumVehicles, organisationId \in Orgs :
                (v = procs[p].vehicleId
                 /\ organisationId = procs[p].organisationId)
                => IF (OpenIssues(organisationId, v) = {})'
                   THEN vehicles'[v].status = "ready"
                   ELSE vehicles' = vehicles]_vars

\* Two issues of one vehicle are both done, the vehicle is ready again and
\* the other vehicle has status issue.
DoneSetsReadyWitness ==
    /\ Len(issues) = MaxIssues
    /\ \A i \in 1 .. Len(issues) :
          issues[i].vehicleId = 1 /\ issues[i].status = "done"
    /\ vehicles[1].status = "ready"
    /\ vehicles[2].status = "issue"
    /\ \E p \in Procs :
          Answer(p, "updateIssueStatus", 200, "Issue status updated")

\* The inspection scenario: vehicle 1, in any status, is assigned to driver
\* d1 for a planned tour (createTour stored the tour and the assignment
\* while the vehicle was ready); the other vehicles are ready.  A driver or an ops
\* user submits one inspection, with any body, and nothing else runs (a
\* single slot is in use).  `requested` keeps the body of the call.
InspectionInit ==
    /\ \E status \in VehicleStatuses :
          vehicles = [v \in 1 .. NumVehicles |->
                         IF v = 1
                         THEN [organisationId |-> "o1", status |-> status,
                               currentDriverId |-> "d1"]
                         ELSE [organisationId |-> "o1", status |-> "ready",
                               currentDriverId |-> ""]]
    /\ issues = <<>>
    /\ tours = << [exists |-> TRUE, organisationId |-> "o1",
                   driverId |-> "d1", vehicleId |-> 1,
                   status |-> TourStatus(ConfirmedAbove)] >>
    /\ projection = NoProjection
    /\ floats = <<>>
    /\ expenses = <<>>
    /\ requested = NoRequest
    /\ procs = [p \in Procs |-> Idle]

InspectionCall(p) ==
    /\ ~requested[p].made
    /\ \E user \in {Reporter, Manager} :
       \E type \in IfRead(RequireRole(user.role, {"driver"}), TypeInputs) :
       \E results \in IfRead(RequireRole(user.role, {"driver"})
                                /\ type \in {t.type : t \in inspection_types},
                             ResultsInputs) :
       \E tourId \in IfRead(RequireRole(user.role, {"driver"})
                               /\ type \in {t.type : t \in inspection_types}
                               /\ results.kind # "absent", TourIdInputs),
          vehicleId \in IfRead(RequireRole(user.role, {"driver"})
                               /\ type \in {t.type : t \in inspection_types}
                               /\ results.kind # "absent", VehicleIdInputs) :
           /\ SubmitInspectionCall(p, user, tourId, vehicleId, type, results)
           /\ requested' = [requested EXCEPT ![p] =
                 [made |-> TRUE, organisationId |-> user.organisationId,
                  uid |-> user.uid, role |-> user.role, tourId |-> tourId,
                  vehicleId |-> vehicleId, type |-> type, results |-> results]]

InspectionNext ==
    \E p \in Sequential :
        \/ InspectionCall(p)
        \/ SubmitInspectionIssue(p)
        \/ SubmitInspectionStatus(p)

InspectionSpec == InspectionInit /\ [][InspectionNext]_vars

\* In this step slot p's submitInspection call passes every check of its
\* body: it goes on to store an issue or is answered 201.
InspectionAccepted(p) ==
    /\ procs[p].pc = "idle"
    /\ procs'[p] # procs[p]
    /\ procs'[p].op = "submitInspection"
    /\ \/ procs'[p].pc = "si_issue"
       \/ procs'[p].pc = "idle" /\ procs'[p].status = 201

\* The call of slot p is about to store an issue whose description lists
\* the key.
ListedAsFailing(p, key) ==
    /\ procs'[p].pc = "si_issue"
    /\ \E i \in 2 .. Len(procs'[p].description) :
          procs'[p].description[i] = key

\* The values submitted under the key.
SubmittedValues(results, key) ==
    {results[i].value : i \in {j \in 1 .. Len(results) : results[j].key = key}}

\* C25: of an accepted inspection that references a vehicle, an item of the
\* template is listed as failing if it is marked safety-critical and either
\* no result was submitted under its key or false was; it is not listed if
\* it is not marked safety-critical (marked false, or not marked), or if
\* only true, numbers or strings were submitted under its key.
FailsIffMissingOrFalse ==
    [][\A p \in Procs :
          (InspectionAccepted(p) /\ requested'[p].vehicleId # 0)
          => \A i \in 1 .. Len(Template(requested'[p].type).items) :
                LET item == Template(requested'[p].type).items[i]
                    values == SubmittedValues(requested'[p].results.items,
                                              item.key)
                IN  /\ item.safetyCritical # "true"
                       => ~ListedAsFailing(p, item.key)
                    /\ (item.safetyCritical = "true"
                        /\ values \in {{}, {"false"}})
                       => ListedAsFailing(p, item.key)
                    /\ (item.safetyCritical = "true" /\ values # {}
                        /\ "false" \notin values)
                       => ~ListedAsFailing(p, item.key)]_vars

\* The inspection of a vehicle with a string for the brakes, false for the
\* cleanliness and nothing for the tyre tread depth is about to store an
\* issue that lists the tyre tread depth alone.
FailsIffMissingOrFalseWitness ==
    \E p \in Procs :
        /\ procs[p].pc = "si_issue"
        /\ requested[p].results.items =
              << [key |-> "brakes", value |-> "string"],
                 [key |-> "cleanliness", value |-> "false"] >>
        /\ procs[p].description =
              <<"Safety critical items failed", "tyre_tread_depth">>

\* C26: with one request at a time, an accepted inspection goes on to
\* store an issue exactly when its failing safety-critical set is not empty
\* and it references a vehicle, and the step that accepts it changes no
\* issue and no vehicle; it then stores exactly one new issue, of severity
\* high and status reported, for the referenced vehicle, and last sets that
\* vehicle's status to issue, changing no other vehicle, and answers 201.
InspectionReportsIffFailing ==
    [][\A p \in Procs :
          /\ InspectionAccepted(p)
             => /\ (procs'[p].pc = "si_issue")
                   <=> (/\ Len(SafetyFailures(
                                 Template(requested'[p].type).items,
                                 TransformedResults(
                                     requested'[p].results.items))) > 0
                        /\ requested'[p].vehicleId # 0)
                /\ UNCHANGED <<vehicles, issues>>
          /\ procs[p].pc = "si_issue"
             => /\ Len(issues') = Len(issues) + 1
                /\ SubSeq(issues', 1, Len(issues)) = issues
                /\ issues'[Len(issues')].severity = "high"
                /\ issues'[Len(issues')].status = "reported"
                /\ issues'[Len(issues')].vehicleId = requested[p].vehicleId
                /\ UNCHANGED vehicles
          /\ procs[p].pc = "si_status"
             => /\ vehicles'[requested[p].vehicleId].status = "issue"
                /\ \A v \in 1 .. NumVehicles :
                      v # requested[p].vehicleId
                      => vehicles'[v] = vehicles[v]
                /\ UNCHANGED issues
                /\ Answered(p, "submitInspection", 201,
                            "Inspection submitted")]_vars

\* An inspection of vehicle 2 has been answered after storing the only
\* issue, which is of vehicle 2, and vehicle 2 has status issue.
InspectionReportsWitness ==
    \E p \in Procs :
        /\ Answer(p, "submitInspection", 201, "Inspection submitted")
        /\ requested[p].made
        /\ requested[p].vehicleId = 2
        /\ Len(issues) = 1
        /\ issues[1].vehicleId = 2
        /\ issues[1].severity = "high"
        /\ vehicles[2].status = "issue"

(***************************************************************************)
(* Maintenance projection (helpers/serviceIndicators).                     *)
(*                                                                         *)
(* calculateMaintenanceIndicators is a pure function of a list of tours,   *)
(* the current odometer, the maintenance intervals and the odometer        *)
(* readings of the last services.  Distances are whole kilometres; a start *)
(* date is the number of its day.                                          *)
(***************************************************************************)
\* longest list of tours of a projection call
MaxTourList == 3
\* latest start day of a tour
MaxDay == 3
\* getIndicatorColor: fewer remaining kilometres than this are red
RedBelow == 1000
\* getIndicatorColor: fewer remaining kilometres than this are not green
AmberBelow == 5000

\* tour.id
TourIds == {"a", "b", "c"}
\* tour.estimated_km when it is present; the function does not validate it
KmInputs == {-300, 300, 500}
\* a tour's estimated distance: present, or absent
DistanceInputs ==
    [has_km : {TRUE}, estimated_km : KmInputs]
    \cup {[has_km |-> FALSE, estimated_km |-> 0]}

\* the tours of a call of n tours: each with an id, a start day and,
\* optionally, an estimated distance; ids are document ids and differ within
\* one list
TourListInputs(n) ==
    { [i \in 1 .. n |->
          [id |-> ids[i], startDate |-> days[i],
           has_km |-> distances[i].has_km,
           estimated_km |-> distances[i].estimated_km]] :
      ids \in {f \in [1 .. n -> TourIds] :
                  \A k, l \in 1 .. n : f[k] = f[l] => k = l},
      days \in [1 .. n -> 1 .. MaxDay],
      distances \in [1 .. n -> DistanceInputs] }

\* currentOdometer
OdometerInputs == {10000}
\* intervals
IntervalInputs ==
    { [tyres |-> 4000, alignmentBalancing |-> 2000, service |-> 1000,
       brakes |-> 3000] }
\* lastServiceOdos: every category due at 10800 km; the categories due at
\* 11299, 11300, 15299 and 15300 km; every category serviced at 10000 km
LastServiceOdoInputs ==
    { [tyres |-> 6800, wheels |-> 8800, service |-> 9800, brakes |-> 7800],
      [tyres |-> 7299, wheels |-> 9300, service |-> 14299, brakes |-> 12300],
      [tyres |-> 10000, wheels |-> 10000, service |-> 10000,
       brakes |-> 10000] }

getServiceColor(remainingKm) ==
    IF remainingKm < 0 THEN "red"
    ELSE IF remainingKm < RedBelow THEN "red"
    ELSE IF remainingKm < AmberBelow THEN "amber"
    ELSE "green"

getBrakeColor(remainingKm) ==
    IF remainingKm < 0 THEN "red"
    ELSE IF remainingKm < RedBelow THEN "red"
    ELSE IF remainingKm < AmberBelow THEN "amber"
    ELSE "green"

\* Variant: only a negative remainder is red.
getIndicatorColorRedWhenOverdue(remainingKm) ==
    IF remainingKm < 0 THEN "red"
    ELSE IF remainingKm < AmberBelow THEN "amber"
    ELSE "green"

getIndicatorColor(remainingKm) ==
    IF remainingKm < 0 THEN "red"
    ELSE IF remainingKm < RedBelow THEN "red"
    ELSE IF remainingKm < AmberBelow THEN "amber"
    ELSE "green"

\* Variant: the tours are taken in the order of the input list.
SortedToursAsGiven(tourList) == tourList

\* Variant: the comparison finds no tour earlier than another.
CompareStartDatesNever(a, b) == 0

\* (a, b) => new Date(a.startDate).getTime() - new Date(b.startDate).getTime()
CompareStartDates(a, b) == a.startDate - b.startDate

\* [...tours].sort(compare) on a copy of the list: the sort is stable, each
\* tour comes after the tours of the list before it that do not start
\* later.
RECURSIVE SortedTours(_)
SortedTours(tourList) ==
    IF tourList = <<>>
    THEN <<>>
    ELSE LET tour == tourList[Len(tourList)]
             sorted == SortedTours(SubSeq(tourList, 1, Len(tourList) - 1))
             k == Cardinality({i \in 1 .. Len(sorted) :
                                  CompareStartDates(sorted[i], tour) <= 0})
         IN  SubSeq(sorted, 1, k) \o <<tour>>
             \o SubSeq(sorted, k + 1, Len(sorted))

\* Variant: a tour's distance is taken off the accumulated distance.
TourKmDeducted(tour) == 0 - tour.estimated_km

\* Variant: no tour adds to the distance.
TourKmNone(tour) == 0

\* tour.estimated_km || 0
TourKm(tour) ==
    IF tour.has_km /\ tour.estimated_km # 0 THEN tour.estimated_km ELSE 0

\* Variant: the remainder is counted from the odometer reading of the last
\* service alone.
RemainingKmWithoutInterval(lastServiceOdo, interval, cumulativeKm) ==
    lastServiceOdo - cumulativeKm

\* (lastServiceOdo + interval) - cumulativeKm
RemainingKm(lastServiceOdo, interval, cumulativeKm) ==
    (lastServiceOdo + interval) - cumulativeKm

\* {color, remainingKm, cumulativeKm}
Indicator(remainingKm, cumulativeKm) ==
    [color |-> getIndicatorColor(remainingKm), remainingKm |-> remainingKm,
     cumulativeKm |-> cumulativeKm]

\* The loop over the sorted tours, from tour i on: the distance is
\* accumulated and the record of the tour's id is written.
RECURSIVE MaintenanceLoop(_, _, _, _, _, _)
MaintenanceLoop(sortedTours, i, cumulativeKm, intervals, lastServiceOdos, indicators) ==
    IF i > Len(sortedTours)
    THEN indicators
    ELSE LET tour == sortedTours[i]
             km == cumulativeKm + TourKm(tour)
             record ==
                 [tyres |->
                     Indicator(RemainingKm(lastServiceOdos.tyres,
                                           intervals.tyres, km), km),
                  wheels |->
                     Indicator(RemainingKm(lastServiceOdos.wheels,
                                           intervals.alignmentBalancing, km),
                               km),
                  service |->
                     Indicator(RemainingKm(lastServiceOdos.service,
                                           intervals.service, km), km),
                  brakes |->
                     Indicator(RemainingKm(lastServiceOdos.brakes,
                                           intervals.brakes, km), km)]
         IN  MaintenanceLoop(sortedTours, i + 1, km, intervals,
                             lastServiceOdos,
                             [id \in DOMAIN indicators \cup {tour.id} |->
                                 IF id = tour.id THEN record
                                 ELSE indicators[id]])

calculateMaintenanceIndicators(tourList, currentOdometer, intervals, lastServiceOdos) ==
    MaintenanceLoop(SortedTours(tourList), 1, currentOdometer, intervals,
                    lastServiceOdos, <<>>)

\* A projection call is set up with any arguments of the input sets.
ProjectionInit ==
    /\ \E n \in 0 .. MaxTourList :
          projection \in
              [called : {FALSE}, tours : TourListInputs(n),
               currentOdometer : OdometerInputs, intervals : IntervalInputs,
               lastServiceOdos : LastServiceOdoInputs, indicators : {<<>>}]
    /\ vehicles = <<>>
    /\ issues = <<>>
    /\ tours = <<>>
    /\ floats = <<>>
    /\ expenses = <<>>
    /\ requested = NoRequest
    /\ procs = [p \in Procs |-> Idle]

\* The call: the result is kept next to the arguments.
CalculateMaintenanceIndicators ==
    /\ ~projection.called
    /\ projection' =
          [projection EXCEPT
              !.called = TRUE,
              !.indicators =
                  calculateMaintenanceIndicators(
                      projection.tours, projection.currentOdometer,
                      projection.intervals, projection.lastServiceOdos)]
    /\ UNCHANGED <<ledger, vehicles, issues, tours, procs>>

ProjectionNext == CalculateMaintenanceIndicators

ProjectionSpec == ProjectionInit /\ [][ProjectionNext]_vars

MaintenanceCategories == {"tyres", "wheels", "service", "brakes"}

\* Tour j of the list comes no later than tour i in ascending order of the
\* start dates, tours of one start date in the order of the list.
NotLater(tourList, j, i) ==
    \/ tourList[j].startDate < tourList[i].startDate
    \/ tourList[j].startDate = tourList[i].startDate /\ j <= i

\* The estimated distances, 0 where absent, of the first n tours of the
\* list that come no later than tour i.
RECURSIVE DistanceUpTo(_, _, _)
DistanceUpTo(tourList, i, n) ==
    IF n = 0
    THEN 0
    ELSE DistanceUpTo(tourList, i, n - 1)
         + (IF NotLater(tourList, n, i) /\ tourList[n].has_km
            THEN tourList[n].estimated_km ELSE 0)

\* C27: the cumulativeKm recorded for a tour is the current odometer plus
\* the estimated distances (0 where absent) of the tours up to and
\* including it in ascending order of the start dates, and it is the same
\* in the records of the four categories.
CumulativeKmIsOdometerPlusDistances ==
    projection.called
    => \A i \in 1 .. Len(projection.tours) :
       \A category \in MaintenanceCategories :
          projection.indicators[projection.tours[i].id][category].cumulativeKm
             = projection.currentOdometer
               + DistanceUpTo(projection.tours, i, Len(projection.tours))

\* Three tours given in the order of days 3, 1, 2, the first two with a
\* distance, have been projected.
CumulativeKmWitness ==
    /\ projection.called
    /\ Len(projection.tours) = MaxTourList
    /\ projection.tours[1].startDate = 3 /\ projection.tours[1].has_km
    /\ projection.tours[2].startDate = 1 /\ projection.tours[2].has_km
    /\ projection.tours[3].startDate = 2 /\ ~projection.tours[3].has_km
    /\ DOMAIN projection.indicators = TourIds

\* C28: the remainingKm recorded for a category is the odometer reading of
\* the category's last service plus the category's interval, less the
\* cumulativeKm of the record; the wheels use the alignmentBalancing
\* interval.
RemainingKmIsDueLessCumulative ==
    projection.called
    => \A id \in DOMAIN projection.indicators :
          LET record == projection.indicators[id]
              last == projection.lastServiceOdos
              interval == projection.intervals
          IN  /\ record.tyres.remainingKm =
                    (last.tyres + interval.tyres)
                    - record.tyres.cumulativeKm
              /\ record.wheels.remainingKm =
                    (last.wheels + interval.alignmentBalancing)
                    - record.wheels.cumulativeKm
              /\ record.service.remainingKm =
                    (last.service + interval.service)
                    - record.service.cumulativeKm
              /\ record.brakes.remainingKm =
                    (last.brakes + interval.brakes)
                    - record.brakes.cumulativeKm

\* A tour has been projected whose four categories have different
\* remainders.
RemainingKmWitness ==
    /\ projection.called
    /\ \E id \in DOMAIN projection.indicators :
          Cardinality({projection.indicators[id][category].remainingKm :
                          category \in MaintenanceCategories})
             = Cardinality(MaintenanceCategories)

\* C29: the colour recorded for a category is red when its remainingKm is
\* at most 999 (negative included), amber from 1000 to 4999 and green from
\* 5000 on, for every category alike; getServiceColor and getBrakeColor
\* map the remainder to the same colour.
ColourByRemainingKm ==
    projection.called
    => \A id \in DOMAIN projection.indicators :
       \A category \in MaintenanceCategories :
          LET remainingKm == projection.indicators[id][category].remainingKm
              color == projection.indicators[id][category].color
          IN  /\ remainingKm <= 999 => color = "red"
              /\ (1000 <= remainingKm /\ remainingKm <= 4999)
                 => color = "amber"
              /\ remainingKm >= 5000 => color = "green"
              /\ getServiceColor(remainingKm) = color
              /\ getBrakeColor(remainingKm) = color

\* Two tours have been projected: one with the remainders 999, 1000, 4999
\* and 5000 in its four categories, coloured red, amber, amber and green,
\* and a later one with a negative remainder.
ColourWitness ==
    /\ projection.called
    /\ \E id \in DOMAIN projection.indicators :
          LET record == projection.indicators[id]
          IN  /\ record.tyres = [color |-> "red", remainingKm |-> 999,
                                 cumulativeKm |-> 10300]
              /\ record.wheels.remainingKm = 1000
              /\ record.wheels.color = "amber"
              /\ record.service.remainingKm = 4999
              /\ record.service.color = "amber"
              /\ record.brakes.remainingKm = 5000
              /\ record.brakes.color = "green"
    /\ \E id \in DOMAIN projection.indicators :
       \E category \in MaintenanceCategories :
          /\ projection.indicators[id][category].remainingKm < 0
          /\ projection.indicators[id][category].color = "red"

\* The example call: a tour of 500 km on day 1 and a tour of 300 km on day
\* 3, in either order, with the odometer at 10000 km, a service interval of
\* 1000 km and the last service at 9800 km.
IsExampleCall ==
    /\ Len(projection.tours) = 2
    /\ \E i, j \in 1 .. 2 :
          /\ projection.tours[i] = [id |-> "a", startDate |-> 1,
                                    has_km |-> TRUE, estimated_km |-> 500]
          /\ projection.tours[j] = [id |-> "b", startDate |-> 3,
                                    has_km |-> TRUE, estimated_km |-> 300]
    /\ projection.currentOdometer = 10000
    /\ projection.intervals.service = 1000
    /\ projection.lastServiceOdos.service = 9800

\* C30 as stated: the example call records for the service of the first
\* tour a cumulativeKm of 10500, a remainder of 300 and the colour amber,
\* and for the second tour 10800, 0 and red.
ExampleFirstTourAmber ==
    (projection.called /\ IsExampleCall)
    => /\ projection.indicators["a"].service =
             [color |-> "amber", remainingKm |-> 300,
              cumulativeKm |-> 10500]
       /\ projection.indicators["b"].service =
             [color |-> "red", remainingKm |-> 0, cumulativeKm |-> 10800]

\* C30: the example call records for the service of the first tour a
\* cumulativeKm of 10500, a remainder of 300 and the colour red, and for
\* the second tour 10800, 0 and red.
ExampleFirstTourRed ==
    (projection.called /\ IsExampleCall)
    => /\ projection.indicators["a"].service =
             [color |-> "red", remainingKm |-> 300, cumulativeKm |-> 10500]
       /\ projection.indicators["b"].service =
             [color |-> "red", remainingKm |-> 0, cumulativeKm |-> 10800]

\* The example call has been made, with the later tour first in the list.
ExampleWitness ==
    /\ projection.called
    /\ IsExampleCall
    /\ projection.tours[1].id = "b"

\* The rearrangements of a list of n tours.
Rearrangements(n) ==
    {f \in [1 .. n -> 1 .. n] : \A k, l \in 1 .. n : f[k] = f[l] => k = l}

\* C31: a call leaves its list of tours in the order it was given; when
\* the start dates of the tours differ pairwise, the call on any
\* rearrangement of the list yields the same record for every tour id; and
\* of two tours of one start date with no tour of that date between them in
\* the list, the later one has the cumulativeKm of the earlier one plus its
\* own distance.
ProjectionIgnoresInputOrder ==
    [][(~projection.called /\ projection'.called)
       => LET tourList == projection.tours
              n == Len(tourList)
          IN  /\ projection'.tours = tourList
              /\ (\A i, j \in 1 .. n :
                     tourList[i].startDate = tourList[j].startDate => i = j)
                 => \A f \in Rearrangements(n) :
                       calculateMaintenanceIndicators(
                           [i \in 1 .. n |-> tourList[f[i]]],
                           projection.currentOdometer, projection.intervals,
                           projection.lastServiceOdos)
                       = projection'.indicators
              /\ \A i, j \in 1 .. n :
                    (/\ i < j
                     /\ tourList[i].startDate = tourList[j].startDate
                     /\ \A k \in i + 1 .. j - 1 :
                           tourList[k].startDate # tourList[i].startDate)
                    => \A category \in MaintenanceCategories :
                          projection'.indicators[tourList[j].id][category]
                             .cumulativeKm
                          = projection'.indicators[tourList[i].id][category]
                                .cumulativeKm
                             + TourKm(tourList[j])]_vars

\* Three tours with distances, given in the order of days 3, 2, 1, have
\* been projected and the list is still in that order.
ProjectionIgnoresInputOrderWitness ==
    /\ projection.called
    /\ Len(projection.tours) = 3
    /\ \A i \in 1 .. 3 :
          /\ projection.tours[i].startDate = 4 - i
          /\ projection.tours[i].has_km
    /\ projection.indicators[projection.tours[1].id].tyres.cumulativeKm
          > projection.indicators[projection.tours[3].id].tyres.cumulativeKm

\* green, amber, red in the order of growing urgency
ColourRank(color) ==
    CASE color = "green" -> 0
      [] color = "amber" -> 1
      [] color = "red" -> 2

\* C39: when no tour of the list has a negative estimated distance, then
\* for every two tours of which the first comes no later in ascending
\* order of the start dates, and for every category, the remainingKm of
\* the second is at most that of the first, its cumulativeKm at least that
\* of the first, and its colour is the same or further along green, amber,
\* red.
IndicatorsNeverImprove ==
    (/\ projection.called
     /\ \A i \in 1 .. Len(projection.tours) :
           projection.tours[i].has_km
           => projection.tours[i].estimated_km >= 0)
    => \A i, j \in 1 .. Len(projection.tours) :
          NotLater(projection.tours, i, j)
          => \A category \in MaintenanceCategories :
                LET first ==
                        projection.indicators[projection.tours[i].id][category]
                    second ==
                        projection.indicators[projection.tours[j].id][category]
                IN  /\ second.remainingKm <= first.remainingKm
                    /\ second.cumulativeKm >= first.cumulativeKm
                    /\ ColourRank(second.color) >= ColourRank(first.color)

\* Tours without a negative distance have been projected, and from one
\* tour to a later one the brakes go from green to amber and the wheels
\* from amber to red.
IndicatorsNeverImproveWitness ==
    /\ projection.called
    /\ \A i \in 1 .. Len(projection.tours) :
          projection.tours[i].has_km
          => projection.tours[i].estimated_km >= 0
    /\ \E i, j \in 1 .. Len(projection.tours) :
          LET first == projection.indicators[projection.tours[i].id]
              second == projection.indicators[projection.tours[j].id]
          IN  /\ projection.tours[i].startDate < projection.tours[j].startDate
              /\ first.brakes.color = "green"
              /\ second.brakes.color = "amber"
              /\ first.wheels.color = "amber"
              /\ second.wheels.color = "red"

\* C38: no step of an updateIssueStatus whose target status is reported,
\* scheduled or in_progress changes the status, or anything else, of any
\* vehicle: neither the call nor the write of the issue, after which the
\* handler has ended.
OtherThanDoneLeavesVehicles ==
    [][\A p \in Procs :
          /\ (procs[p].pc = "idle" /\ procs'[p].op = "updateIssueStatus"
              /\ procs'[p] # procs[p])
             => vehicles' = vehicles
          /\ (StepOf(p, "updateIssueStatus") /\ procs[p].issueStatus # "done")
             => (vehicles' = vehicles /\ procs'[p].pc = "idle")]_vars

\* With one request at a time a vehicle is ready only after all its issues
\* were done: vehicle 1 is ready, its only issue is in_progress again, and
\* the last request was an accepted updateIssueStatus.
OtherThanDoneLeavesVehiclesWitness ==
    /\ Len(issues) = 1
    /\ issues[1].vehicleId = 1
    /\ issues[1].status = "in_progress"
    /\ vehicles[1].status = "ready"
    /\ \A p \in Procs : procs[p].pc = "idle"
    /\ Answer("p1", "updateIssueStatus", 200, "Issue status updated")

\* The race scenario: one vehicle has status issue and a single reported
\* issue, stored by createIssue; the other vehicles have any status.  An ops
\* user makes one call of updateIssueStatus for that issue in slot p1 and a
\* driver one call of createIssue in slot p2, and their steps interleave.
RaceInit ==
    /\ \E vehicleId \in 1 .. NumVehicles :
          /\ vehicles \in [1 .. NumVehicles ->
                              [organisationId : {"o1"},
                               status : VehicleStatuses,
                               currentDriverId : {""}]]
          /\ vehicles[vehicleId].status = "issue"
          /\ issues = <<NewIssue("o1", vehicleId, "d1", "low", "leak")>>
    /\ tours = <<>>
    /\ projection = NoProjection
    /\ floats = <<>>
    /\ expenses = <<>>
    /\ requested = NoRequest
    /\ procs = [p \in Procs |-> Idle]

RaceNext ==
    \/ /\ procs["p1"] = Idle
       /\ \E status \in AllowedStatuses :
             UpdateIssueStatusCall("p1", Manager, 1, status)
    \/ UpdateIssueStatusWrite("p1")
    \/ UpdateIssueStatusQuery("p1")
    \/ UpdateIssueStatusReady("p1")
    \/ /\ procs["p2"] = Idle
       /\ \E vehicleId \in 1 .. NumVehicles :
             CreateIssueCall("p2", Reporter, vehicleId, "low", "leak")
    \/ CreateIssueSet("p2")
    \/ CreateIssueStatus("p2")

RaceSpec == RaceInit /\ [][RaceNext]_vars

\* C34: the query of an updateIssueStatus to done lets the handler go on to
\* its write of the vehicle only when it finds no open issue of the vehicle,
\* and that write then sets the vehicle ready and touches no issue, whatever
\* issue has been stored for the vehicle since the query; so the
\* interleaving of the witness exists.
ReadyWriteIgnoresLaterIssue ==
    [][\A p \in Procs :
          /\ (procs[p].pc = "ui_query" /\ procs'[p].pc = "ui_ready")
             => OpenIssues(procs[p].organisationId, procs[p].vehicleId) = {}
          /\ (procs[p].pc = "ui_ready" /\ procs'[p] # procs[p])
             => /\ vehicles'[procs[p].vehicleId].status = "ready"
                /\ issues' = issues]_vars

\* updateIssueStatus has taken the vehicle's only issue to done and
\* createIssue has stored a second issue for the same vehicle, both have
\* answered, and the vehicle is ready while the second issue is reported.
\* With one call of each this is reached only when the query ran before the
\* second issue was stored and the write of ready came after createIssue's
\* write of issue.
ReadyWriteIgnoresLaterIssueWitness ==
    /\ Len(issues) = 2
    /\ issues[1].status = "done"
    /\ issues[2].status = "reported"
    /\ issues[2].vehicleId = issues[1].vehicleId
    /\ vehicles[issues[1].vehicleId].status = "ready"
    /\ Answer("p1", "updateIssueStatus", 200, "Issue status updated")
    /\ Answer("p2", "createIssue", 201, "Issue created")

(***************************************************************************)
(* Expenses left without their float.                                      *)
(***************************************************************************)
\* The orphan scenario: the store holds one float, of organisation o2, and
\* MaxExpenses expenses of organisation o1 whose own floats are gone:
\* expense 1 carries the id of the float of o2 and every other expense an
\* id of no float document.  (No handler of this core removes a float; the
\* specification names the float that no longer exists as a case of
\* deleteExpense, and the handler tests for both.)  Any user calls
\* deleteExpense with any id, in both slots.  No float is written, so no
\* transaction has to be run again.
OrphanInit ==
    /\ \E cents \in 1 .. MaxIssued :
       \E spent \in 0 .. cents :
          floats = << [NewFloat("o2", "d1", Scale * cents) EXCEPT
                          !.remainingAmount = Scale * spent] >>
    /\ \E categories \in [1 .. MaxExpenses -> Categories] :
          expenses = [id \in 1 .. MaxExpenses |->
                         NewExpense("o1", "d1", id, categories[id], Scale)]
    /\ procs = [p \in Procs |-> Idle]
    /\ requested = NoRequest
    /\ NoFleet

OrphanNext ==
    \E p \in Procs :
        \/ DeleteExpenseStart(p)
        \/ DeleteExpenseTxn(p)
        \/ DeleteExpenseCommit(p)

OrphanSpec == OrphanInit /\ [][OrphanNext]_vars

\* The float the expense with this id refers to is gone or is of another
\* organisation than the expense.
IsOrphan(id) ==
    \/ ~FloatExists(expenses[id].floatId)
    \/ floats[expenses[id].floatId].organisationId
          # expenses[id].organisationId

\* C33: a deleteExpense call by an owner of the expense's organisation on
\* an existing expense whose float does not exist, or is of another
\* organisation, is not refused; no transaction of such a call fails its
\* commit; and its commit removes the expense document, is answered Expense
\* deleted and leaves every float as it is.
OrphanDeletedWithoutReversal ==
    [][\A p \in Procs :
          /\ \A id \in 1 .. MaxExpenses :
                (/\ procs[p].pc = "idle"
                 /\ procs'[p] # procs[p]
                 /\ ExpenseExists(id)
                 /\ IsOrphan(id)
                 /\ \E user \in Users :
                       /\ user.role = "owner"
                       /\ user.organisationId = expenses[id].organisationId
                       /\ DeleteExpenseCall(p, user, id))
                => (procs'[p].pc = "de_txn" /\ procs'[p].expenseId = id)
          /\ (procs[p].pc = "de_commit" /\ procs'[p].pc = "idle")
             => \A id \in 1 .. MaxExpenses :
                   (id = procs[p].expenseId /\ IsOrphan(id))
                   => /\ ~procs[p].conflict
                      /\ Answered(p, "deleteExpense", 200, "Expense deleted")
                      /\ ~ExpenseExists(id)'
                      /\ floats' = floats]_vars

\* Both the expense that carries the id of another organisation's float and
\* the expense whose float is missing have been deleted, by two calls that
\* were answered Expense deleted.
OrphanDeletedWitness ==
    /\ \A id \in 1 .. Len(expenses) : ~expenses[id].exists
    /\ \A p \in Procs : Answer(p, "deleteExpense", 200, "Expense deleted")

(***************************************************************************)
(* Expenses against a closed float.                                        *)
(***************************************************************************)
\* The closed-float scenario: driver d1's float has been issued with up to
\* MaxIssued cents and closed by closeFloat, with nothing spent.  Any user
\* submits expenses and any user closes floats, in both slots.
ClosedInit ==
    /\ \E cents \in 1 .. MaxIssued :
          floats = << [NewFloat("o1", "d1", Scale * cents) EXCEPT
                          !.active = FALSE, !.closedAt = "now"] >>
    /\ expenses = <<>>
    /\ procs = [p \in Procs |-> Idle]
    /\ requested = NoRequest
    /\ NoFleet

ClosedNext ==
    \E p \in Procs :
        \/ CloseFloatStep(p)
        \/ CreateExpenseStep(p)

ClosedSpec == ClosedInit /\ [][ClosedNext]_vars

\* The float is closed and a submission of this user, category and amount
\* against it passes the role check and has the float's driver as its
\* caller and an amount the float covers.
CoveredByClosedFloat(user, floatId, amountCents) ==
    /\ user.role = "driver"
    /\ FloatExists(floatId)
    /\ ~floats[floatId].active
    /\ floats[floatId].organisationId = user.organisationId
    /\ floats[floatId].driverId = user.uid
    /\ floats[floatId].remainingAmount >= amountCents

\* C35: a createExpense call by the driver of a closed float, in the
\* float's organisation and with an amount the float's remainingAmount
\* covers, is not refused, neither at the call nor when its transaction is
\* run again; and its commit is answered Expense created, stores the
\* expense and changes the closed float's remainingAmount by the
\* adjustment, leaving the float closed.
ClosedFloatStillCharged ==
    [][\A p \in Procs :
          /\ (procs[p].pc = "idle" /\ procs'[p] # procs[p]
              /\ procs'[p].op = "createExpense")
             => \A user \in Users, floatId \in 1 .. MaxFloats,
                   category \in Categories,
                   amountCents \in ExpenseAmountInputs :
                   (/\ CoveredByClosedFloat(user, floatId, amountCents)
                    /\ CreateExpenseCall(p, user, category, amountCents,
                                         floatId))
                   => procs'[p].pc = "ce_commit"
          /\ (/\ procs[p].pc = "ce_commit"
              /\ procs[p].conflict
              /\ procs[p].attempts < MaxAttempts
              /\ procs'[p] # procs[p]
              /\ ~floats[procs[p].floatId].active
              /\ floats[procs[p].floatId].remainingAmount >= procs[p].amount)
             => procs'[p].pc = "ce_commit"
          /\ (/\ procs[p].pc = "ce_commit"
              /\ ~procs[p].conflict
              /\ procs'[p].pc = "idle"
              /\ ~floats[procs[p].floatId].active)
             => /\ Answered(p, "createExpense", 201, "Expense created")
                /\ Len(expenses') = Len(expenses) + 1
                /\ expenses'[Len(expenses')].floatId = procs[p].floatId
                /\ floats' = [floats EXCEPT
                      ![procs[p].floatId].remainingAmount =
                          @ + SignedAmount(procs[p].category,
                                           procs[p].amount)]]_vars

\* The float, closed before anything was spent, has been charged: a
\* submission was answered Expense created, the expense is stored and the
\* float's remainingAmount is below its originalAmount.
ClosedFloatStillChargedWitness ==
    /\ ~floats[1].active
    /\ floats[1].remainingAmount < floats[1].originalAmount
    /\ \E id \in 1 .. Len(expenses) :
          /\ expenses[id].exists
          /\ expenses[id].floatId = 1
          /\ expenses[id].category # "WIFI"
          /\ expenses[id].amount > 0
    /\ \E p \in Procs : Answer(p, "createExpense", 201, "Expense created")

\* C37: no step removes a float document, changes the originalAmount of a
\* float or sets the active flag of a closed float back to true.
ClosedForGood ==
    [][/\ Len(floats') >= Len(floats)
       /\ \A id \in 1 .. Len(floats) :
             /\ floats'[id].originalAmount = floats[id].originalAmount
             /\ ~floats[id].active => ~floats'[id].active]_vars

\* A second float has been issued, the first one is closed and has been
\* charged an expense, and the last float request answered was a closeFloat.
ClosedForGoodWitness ==
    /\ Len(floats) = MaxFloats
    /\ ~floats[1].active
    /\ floats[1].remainingAmount # floats[1].originalAmount
    /\ \E id \in 1 .. Len(expenses) :
          expenses[id].exists /\ expenses[id].floatId = 1
    /\ \E p \in AdminSlots : Answer(p, "closeFloat", 200, "Float closed")

(***************************************************************************)
(* Two organisations in one store.                                         *)
(***************************************************************************)
\* The callers of the isolation scenario: driver d1 and the owner of each
\* organisation.
Callers ==
    {user \in Users : user.role \in {"driver", "owner"} /\ user.uid # "d2"}

\* The isolation scenario: the vehicles belong in turn to o1 and to o2 and
\* are ready, and the store holds no float, expense or issue yet.  One
\* request at a time, a caller of either organisation calls one of the
\* eight handlers with the id of any float, expense, issue or vehicle, so
\* every document in the store was written by these handlers.  The ledger
\* handlers and the fleet handlers have no document in common, so a run
\* addresses the ledger or the fleet: a ledger handler is called while no
\* issue is stored and the vehicles are as they were, a fleet handler while
\* no float and no expense is stored.  With one request at a time no
\* transaction is run again.
IsolationInit ==
    /\ vehicles = [v \in 1 .. NumVehicles |->
                      [organisationId |-> IF v % 2 = 1 THEN "o1" ELSE "o2",
                       status |-> "ready", currentDriverId |-> ""]]
    /\ issues = <<>>
    /\ tours = <<>>
    /\ projection = NoProjection
    /\ floats = <<>>
    /\ expenses = <<>>
    /\ requested = NoRequest
    /\ procs = [p \in Procs |-> Idle]

\* No request has written the ledger yet.
LedgerUntouched == floats = <<>> /\ expenses = <<>>

\* No request has written the fleet yet.
FleetUntouched ==
    /\ issues = <<>>
    /\ \A v \in 1 .. NumVehicles : vehicles[v].status = "ready"

IsolationNext ==
    \E p \in Sequential :
        \/ /\ FleetUntouched
           /\ \E user \in Callers :
                 \/ IssueFloatCall(p, user, "d1", "number", Scale)
                 \/ \E floatId \in 1 .. MaxFloats :
                       CloseFloatCall(p, user, floatId)
                 \/ \E floatId \in 1 .. MaxFloats :
                       /\ CreateExpenseCall(p, user, "FUEL", Scale, floatId)
                       /\ UNCHANGED requested
                 \/ \E expenseId \in 1 .. MaxExpenses :
                       UpdateExpenseStatusCall(p, user, "approve", expenseId)
                 \/ \E expenseId \in 1 .. MaxExpenses :
                       DeleteExpenseCall(p, user, expenseId)
        \/ IssueFloatClose(p)
        \/ IssueFloatSet(p)
        \/ CloseFloatWrite(p)
        \/ CreateExpenseCommit(p)
        \/ UpdateExpenseStatusWrite(p)
        \/ DeleteExpenseTxn(p)
        \/ DeleteExpenseCommit(p)
        \/ /\ LedgerUntouched
           /\ \E user \in Callers :
                 \/ \E vehicleId \in 1 .. NumVehicles :
                       CreateIssueCall(p, user, vehicleId, "low", "leak")
                 \/ \E issueId \in 1 .. MaxIssues,
                          status \in {"in_progress", "done"} :
                       UpdateIssueStatusCall(p, user, issueId, status)
                 \/ \E vehicleId \in 1 .. NumVehicles :
                       /\ SubmitInspectionCall(p, user, 0, vehicleId,
                                               "pre_trip",
                                               [kind |-> "array",
                                                items |-> <<>>])
                       /\ UNCHANGED requested
        \/ CreateIssueSet(p)
        \/ CreateIssueStatus(p)
        \/ UpdateIssueStatusWrite(p)
        \/ UpdateIssueStatusQuery(p)
        \/ UpdateIssueStatusReady(p)
        \/ SubmitInspectionIssue(p)
        \/ SubmitInspectionStatus(p)

IsolationSpec == IsolationInit /\ [][IsolationNext]_vars

\* Every document of the collection that this step creates, changes or
\* deletes is of the organisation: `exists` tells a document from the
\* place of a deleted one.
WritesWithin(organisationId, before, after, exists(_)) ==
    /\ Len(after) >= Len(before)
    /\ \A id \in 1 .. Len(after) :
          IF id > Len(before)
          THEN after[id].organisationId = organisationId
          ELSE after[id] # before[id]
               => /\ exists(before[id])
                     => before[id].organisationId = organisationId
                  /\ exists(after[id])
                     => after[id].organisationId = organisationId

Stored(document) == TRUE

NotDeleted(document) == document.exists

Returns(p) ==
    \/ CloseFloatWrite(p)
    \/ CreateExpenseCommit(p)
    \/ CreateExpenseRetry(p)
    \/ CreateExpenseAbort(p)
    \/ DeleteExpenseTxn(p)
    \/ DeleteExpenseCommit(p)
    \/ DeleteExpenseRetry(p)
    \/ DeleteExpenseAbort(p)

\* Expense submission and deletion against an issued float, with floats
\* being closed, where the store answers every request of a handler in
\* flight and the handler then goes on: a request that can take a step
\* does not wait forever.  New calls may or may not arrive.
LiveExpenseSpec ==
    /\ ExpenseInit
    /\ [][ExpenseNext]_vars
    /\ \A p \in Procs : WF_vars(Returns(p))

\* C32: every call of createExpense and of deleteExpense that is in flight
\* is eventually answered, with a success or with a failure, whatever other
\* requests write the same float in the meantime.
EveryCallReturns ==
    \A p \in Procs :
        (procs[p].pc \in {"ce_commit", "de_txn", "de_commit"})
        ~> (/\ procs[p].pc = "idle"
            /\ procs[p].op \in {"createExpense", "deleteExpense"}
            /\ procs[p].status \in {200, 201, 400, 403, 404, 500})

\* A submission has been given up after conflicting writes of its float,
\* the last of them the reversal of a deletion, and both calls have been
\* answered.
EveryCallReturnsWitness ==
    /\ Answer("p1", "createExpense", 500, "Failed to create expense")
    /\ Answer("p2", "deleteExpense", 200, "Expense deleted")
====
